---- MODULE Spec2Model ----
(***************************************************************************)
(* A model of Easy OTP (aliceric27/easy-otp): the OTP collection           *)
(* (src/core/otp_manager.py), its persistence and backups                  *)
(* (src/core/storage.py), the settings tree (src/core/settings.py) and the *)
(* import/export flows (src/utils/export_import.py).                       *)
(*                                                                         *)
(* Strings of the program are sequences of one-character strings, so that  *)
(* splitting, suffixing and alphabet checks are computed and not assumed.  *)
(***************************************************************************)
EXTENDS Integers, Sequences, FiniteSets, TLC

VARIABLES
    entries,    \* OTPManager.entries: insertion-ordered dict, a sequence of entries with distinct labels
    last,       \* the most recent operation on the collection: its arguments, the collection before it, its result
    prev,       \* the add_entry call that `last` directly follows (NoOp when it follows none)
    now,        \* the wall clock, in seconds (datetime.now() at second resolution)
    data_file,  \* the content of otp_data.json
    backups,    \* the backups directory: file name (its timestamp) -> content
    saves,      \* how many save() calls returned success while the data file already existed
    loaded,     \* the outcome of the last StorageManager.load()
    default_settings, \* SettingsManager.default_settings (the nested dicts are objects that may be shared)
    settings,   \* SettingsManager._settings
    settings_file,    \* the content of settings.json
    slast,      \* the most recent operation on the settings manager
    current_language,  \* LanguageManager._current_language
    translations,      \* LanguageManager._translations: the cached catalogs
    observers,         \* LanguageManager._observers
    allowed_languages, \* LanguageManager._allowed_languages
    locales_dir,       \* the files of the locales directory
    ilast,      \* the most recent operation on the language manager
    phase,          \* the main window: "starting", "ready" or "failed"
    otp_cards,      \* MainWindow.otp_cards, in insertion order
    search_query,   \* MainWindow.search_query
    status_label,   \* the message shown by MainWindow.status_label
    status_timers,  \* the number of pending after(duration, clear) callbacks
    empty_state,    \* what MainWindow.empty_state shows, and whether it is packed
    tick_scheduled, \* whether an after(1000, _update_otp_codes) is pending
    close_handler,  \* whether WM_DELETE_WINDOW is bound to _on_closing
    ulast       \* the most recent callback of the main window

vars == <<entries, last, prev, now, data_file, backups, saves, loaded,
          default_settings, settings, settings_file, slast,
          current_language, translations, observers, allowed_languages,
          locales_dir, ilast,
          phase, otp_cards, search_query, status_label, status_timers,
          empty_state, tick_scheduled, close_handler, ulast>>

otpVars == <<entries, last, prev>>
storageVars == <<now, data_file, backups, saves, loaded>>
settingsVars == <<default_settings, settings, settings_file, slast>>
i18nVars == <<current_language, translations, observers, allowed_languages,
              locales_dir, ilast>>
uiVars == <<phase, otp_cards, search_query, status_label, status_timers,
            empty_state, tick_scheduled, close_handler, ulast>>

-----------------------------------------------------------------------------
(* Strings *)

UpperLetters == <<"A","B","C","D","E","F","G","H","I","J","K","L","M",
                  "N","O","P","Q","R","S","T","U","V","W","X","Y","Z">>
LowerLetters == <<"a","b","c","d","e","f","g","h","i","j","k","l","m",
                  "n","o","p","q","r","s","t","u","v","w","x","y","z">>

\* str.upper() on one character (base64.b32decode(..., casefold=True))
ToUpper(c) ==
    IF \E i \in 1..26 : LowerLetters[i] = c
    THEN UpperLetters[CHOOSE i \in 1..26 : LowerLetters[i] = c]
    ELSE c

DigitChars == <<"0","1","2","3","4","5","6","7","8","9">>

\* str(counter) of the f-string f"{base_label} ({counter})"
RECURSIVE IntToStr(_)
IntToStr(n) ==
    IF n < 10 THEN <<DigitChars[n + 1]>>
    ELSE IntToStr(n \div 10) \o <<DigitChars[(n % 10) + 1]>>

\* the index of the first c in s, 0 when there is none (str.find)
FindChar(s, c) ==
    IF \E i \in 1..Len(s) : s[i] = c
    THEN CHOOSE i \in 1..Len(s) : s[i] = c /\ \A j \in 1..(i - 1) : s[j] # c
    ELSE 0

\* Python's Optional[str]
NoneV == [some |-> FALSE, v |-> <<>>]
Some(s) == [some |-> TRUE, v |-> s]
\* truthiness of an Optional[str]: None and "" are falsy
Truthy(o) == o.some /\ o.v # <<>>

-----------------------------------------------------------------------------
(* OTP entries and the collection: src/core/otp_manager.py *)

Base32Alphabet ==
    {UpperLetters[i] : i \in 1..26} \cup {"2","3","4","5","6","7"}

\* pyotp.TOTP(secret).now() fails exactly when base64.b32decode of the padded
\* secret fails: a character outside the alphabet, or a length that pads to an
\* impossible number of '=' (lengths 1, 3, 6 modulo 8).
ValidSecret(s) ==
    /\ \A i \in 1..Len(s) : ToUpper(s[i]) \in Base32Alphabet
    /\ (Len(s) % 8) \notin {1, 3, 6}

\* the OTPEntry dataclass with its defaults
OTPEntry(label, secret, issuer, algorithm, digits, period, tags, created_at) ==
    [label |-> label, secret |-> secret, issuer |-> issuer,
     algorithm |-> algorithm, digits |-> digits, period |-> period,
     tags |-> tags, created_at |-> created_at]

LabelsOf(es) == {es[i].label : i \in 1..Len(es)}
HasLabel(es, l) == \E i \in 1..Len(es) : es[i].label = l
IndexOf(es, l) == CHOOSE i \in 1..Len(es) : es[i].label = l
\* OTPManager.get_entry; asked only for a label that is present
GetEntry(es, l) == es[IndexOf(es, l)]
\* del self.entries[label]
DelLabel(es, l) ==
    LET i == IndexOf(es, l) IN SubSeq(es, 1, i - 1) \o SubSeq(es, i + 1, Len(es))
\* self.entries[label] = entry: a present key keeps its place, a new key goes last
SetLabel(es, e) ==
    IF HasLabel(es, e.label)
    THEN [es EXCEPT ![IndexOf(es, e.label)] = e]
    ELSE Append(es, e)

\* a collection: distinct labels
IsCollection(es) ==
    \A i, j \in 1..Len(es) : es[i].label = es[j].label => i = j

AddEntryNoDuplicateCheck(es, e) ==
    IF ~ValidSecret(e.secret)
    THEN [ok |-> FALSE, entries |-> es]
    ELSE [ok |-> TRUE, entries |-> SetLabel(es, e)]

AddEntry(es, e) ==
    IF HasLabel(es, e.label)
    THEN [ok |-> FALSE, entries |-> es]
    ELSE IF ~ValidSecret(e.secret)
    THEN [ok |-> FALSE, entries |-> es]
    ELSE [ok |-> TRUE, entries |-> SetLabel(es, e)]

RemoveEntryAlwaysTrue(es, l) ==
    IF HasLabel(es, l)
    THEN [ok |-> TRUE, entries |-> DelLabel(es, l)]
    ELSE [ok |-> TRUE, entries |-> es]

RemoveEntry(es, l) ==
    IF HasLabel(es, l)
    THEN [ok |-> TRUE, entries |-> DelLabel(es, l)]
    ELSE [ok |-> FALSE, entries |-> es]

UpdateEntryKeepsOld(es, old_label, e) ==
    IF ~HasLabel(es, old_label)
    THEN [ok |-> FALSE, entries |-> es]
    ELSE IF old_label # e.label /\ HasLabel(es, e.label)
    THEN [ok |-> FALSE, entries |-> es]
    ELSE IF ~ValidSecret(e.secret)
    THEN [ok |-> FALSE, entries |-> es]
    ELSE [ok |-> TRUE, entries |-> SetLabel(es, e)]

\* validates the secret only after the old key is gone
UpdateEntryDeletesFirst(es, old_label, e) ==
    IF ~HasLabel(es, old_label)
    THEN [ok |-> FALSE, entries |-> es]
    ELSE IF old_label # e.label /\ HasLabel(es, e.label)
    THEN [ok |-> FALSE, entries |-> es]
    ELSE IF ~ValidSecret(e.secret)
    THEN [ok |-> FALSE, entries |-> DelLabel(es, old_label)]
    ELSE [ok |-> TRUE, entries |-> SetLabel(DelLabel(es, old_label), e)]

UpdateEntry(es, old_label, e) ==
    IF ~HasLabel(es, old_label)
    THEN [ok |-> FALSE, entries |-> es]
    ELSE IF old_label # e.label /\ HasLabel(es, e.label)
    THEN [ok |-> FALSE, entries |-> es]
    ELSE IF ~ValidSecret(e.secret)
    THEN [ok |-> FALSE, entries |-> es]
    ELSE [ok |-> TRUE, entries |-> SetLabel(DelLabel(es, old_label), e)]

-----------------------------------------------------------------------------
(* Provisioning URIs.  A URI is held in its parsed shape: what                *)
(* urlparse(unquote(uri)) and parse_qsl give pyotp.parse_uri, and what        *)
(* pyotp.utils.build_uri puts together.  path is the percent-decoded text     *)
(* after "otpauth://<netloc>/".                                               *)

NoneI == [some |-> FALSE, v |-> 0]
SomeI(n) == [some |-> TRUE, v |-> n]

Uri(scheme, netloc, path, secret, issuer, algorithm, digits, period) ==
    [scheme |-> scheme, netloc |-> netloc, path |-> path, secret |-> secret,
     issuer |-> issuer, algorithm |-> algorithm, digits |-> digits, period |-> period]

\* Optional[str] results of generate_uri
NoUri == [some |-> FALSE,
          v |-> Uri("", "", <<>>, NoneV, NoneV, NoneV, NoneI, NoneI)]
SomeUri(u) == [some |-> TRUE, v |-> u]

\* QRHandler.is_valid_otp_uri: the prefix otpauth://totp/ or otpauth://hotp/
IsValidOtpUri(u) == u.scheme = "otpauth" /\ u.netloc \in {"totp", "hotp"}

\* OTPManager.generate_uri of a stored entry.  pyotp.TOTP is built without a
\* digest, so build_uri sees sha1 and writes no algorithm; digits and period
\* are written when they differ from 6 and 30; with an issuer the path is
\* quote(issuer) ":" quote(name), and name already is "issuer:label".
GenerateUri(e) ==
    LET name == IF Truthy(e.issuer) THEN e.issuer.v \o <<":">> \o e.label
                ELSE e.label
    IN  IF name = <<>>
        THEN NoUri      \* provisioning_uri falls back to self.name = None; quote(None) raises
        ELSE SomeUri(Uri("otpauth", "totp",
                 IF Truthy(e.issuer) THEN e.issuer.v \o <<":">> \o name ELSE name,
                 Some(e.secret),
                 IF Truthy(e.issuer) THEN e.issuer ELSE NoneV,
                 NoneV,
                 IF e.digits # 6 THEN SomeI(e.digits) ELSE NoneI,
                 IF e.period # 30 THEN SomeI(e.period) ELSE NoneI))

NoEntry == [some |-> FALSE,
            v |-> OTPEntry(<<>>, <<>>, NoneV, "SHA1", 6, 30, <<>>, 0)]
SomeEntry(e) == [some |-> TRUE, v |-> e]

\* pyotp.parse_uri: what it raises on, and the name and issuer it finds
PyotpRaises(u) ==
    LET c == FindChar(u.path, ":")
    IN  \/ u.scheme # "otpauth"
        \/ c > 0 /\ u.issuer.some /\ SubSeq(u.path, 1, c - 1) # u.issuer.v
        \/ u.algorithm.some /\
             u.algorithm.v \notin {"SHA1", "SHA256", "SHA512"}
        \/ u.digits.some /\ u.digits.v \notin {6, 7, 8}
        \/ ~Truthy(u.secret)
        \/ u.netloc \notin {"totp", "hotp"}
PyotpName(u) ==
    LET c == FindChar(u.path, ":")
    IN  IF c > 0 THEN SubSeq(u.path, c + 1, Len(u.path)) ELSE u.path
PyotpIssuer(u) ==
    LET c == FindChar(u.path, ":")
    IN  IF u.issuer.some THEN u.issuer
        ELSE IF c > 0 THEN Some(SubSeq(u.path, 1, c - 1)) ELSE NoneV

\* OTPManager.parse_uri; t is datetime.now() for created_at.  An hotp URI gives
\* a pyotp.HOTP, which has no interval: the AttributeError is caught.
ParseUri(u, t) ==
    IF PyotpRaises(u) \/ u.netloc = "hotp"
    THEN NoEntry
    ELSE LET name == PyotpName(u)
             label0 == IF name = <<>> THEN <<"U","n","k","n","o","w","n">> ELSE name
             issuer0 == PyotpIssuer(u)
             c == FindChar(label0, ":")
             split == ~Truthy(issuer0) /\ c > 0
         IN  SomeEntry(OTPEntry(
                 IF split THEN SubSeq(label0, c + 1, Len(label0)) ELSE label0,
                 u.secret.v,
                 IF split THEN Some(SubSeq(label0, 1, c - 1)) ELSE issuer0,
                 "SHA1",
                 IF u.digits.some THEN u.digits.v ELSE 6,
                 IF u.period.some THEN u.period.v ELSE 30,
                 <<>>, t))

-----------------------------------------------------------------------------
(* Import flows: src/utils/export_import.py *)

\* f"{base_label} ({counter})"
Suffixed(base, k) == base \o <<" ", "(">> \o IntToStr(k) \o <<")">>

\* counter = 1; while f"{base_label} ({counter})" in entries: counter += 1
RECURSIVE FirstFreeCounter(_, _, _)
FirstFreeCounter(es, base, k) ==
    IF HasLabel(es, Suffixed(base, k))
    THEN FirstFreeCounter(es, base, k + 1)
    ELSE k

ResolveLabelAlwaysOne(es, label) ==
    IF HasLabel(es, label) THEN Suffixed(label, 1) ELSE label

\* the label an imported entry is added under
ResolveLabel(es, label) ==
    IF HasLabel(es, label)
    THEN Suffixed(label, FirstFreeCounter(es, label, 1))
    ELSE label

\* the loop "for uri in uris" of import_from_qr_image, which is also the body
\* of the loop over lines of import_from_google_auth_format.  acc carries the
\* collection and imported_labels.
RECURSIVE ImportUris(_, _, _)
ImportUris(acc, uris, t) ==
    IF uris = <<>> THEN acc
    ELSE LET u == Head(uris)
             p == IF IsValidOtpUri(u) THEN ParseUri(u, t) ELSE NoEntry
             e == [p.v EXCEPT !.label = ResolveLabel(acc.entries, p.v.label)]
             r == AddEntry(acc.entries, e)
         IN  ImportUris(
                 IF p.some /\ r.ok
                 THEN [entries |-> r.entries, imported |-> Append(acc.imported, e.label)]
                 ELSE acc,
                 Tail(uris), t)

\* otpauth_migration_decoder.parse_migration_uri: the provisioning URIs a
\* migration payload expands to, in order.  The payload is held decoded.
ParseMigrationUri(content) == content.uris

\* the URIs one decoded QR content gives (lines 100-105)
UrisOfContent(content) ==
    IF content.kind = "migration" THEN ParseMigrationUri(content)
    ELSE IF content.kind = "uri" /\ IsValidOtpUri(content.uris[1]) THEN content.uris
    ELSE <<>>

RECURSIVE ImportContents(_, _, _)
ImportContents(acc, contents, t) ==
    IF contents = <<>> THEN acc
    ELSE ImportContents(ImportUris(acc, UrisOfContent(Head(contents)), t),
                        Tail(contents), t)

\* ExportImportManager.import_from_qr_image, given the decoded QR contents
ImportFromQrImage(es, contents, t) ==
    ImportContents([entries |-> es, imported |-> <<>>], contents, t)

\* the lines of a Google-Authenticator text file that are provisioning URIs
RECURSIVE LineUris(_)
LineUris(lines) ==
    IF lines = <<>> THEN <<>>
    ELSE (IF Head(lines).kind = "uri" /\ IsValidOtpUri(Head(lines).uris[1])
          THEN Head(lines).uris ELSE <<>>) \o LineUris(Tail(lines))

\* ExportImportManager.import_from_google_auth_format, given the file's lines
ImportFromGoogleAuthFormat(es, lines, t) ==
    ImportUris([entries |-> es, imported |-> <<>>], LineUris(lines), t)

-----------------------------------------------------------------------------
(* JSON export and import: src/core/storage.py *)

\* StorageManager.export_json: one item per entry, with its resolved URI
ExportJson(es) ==
    [i \in 1..Len(es) |->
        [label |-> es[i].label, secret |-> es[i].secret, issuer |-> es[i].issuer,
         algorithm |-> es[i].algorithm, digits |-> es[i].digits,
         period |-> es[i].period, tags |-> es[i].tags,
         uri |-> GenerateUri(es[i])]]

\* StorageManager.import_json of a file written by export_json: every item has
\* a "uri" key, so the URI is parsed (a null URI makes pyotp raise: no entry),
\* the tags of the item override, and the entry is added to a fresh manager.
RECURSIVE ImportJsonItems(_, _, _)
ImportJsonItems(es, items, t) ==
    IF items = <<>> THEN es
    ELSE LET item == Head(items)
             p == IF item.uri.some THEN ParseUri(item.uri.v, t) ELSE NoEntry
             e == [p.v EXCEPT !.tags = item.tags]
         IN  ImportJsonItems(IF p.some THEN AddEntry(es, e).entries ELSE es,
                             Tail(items), t)

ImportJson(items, t) == ImportJsonItems(<<>>, items, t)

-----------------------------------------------------------------------------
(* Persistence and backups: src/core/storage.py.                           *)
(* A file is held as what json.load gives: kind "missing" (no file),        *)
(* "unparsable" (json.load raises), "scalar" (JSON that is neither an       *)
(* object nor an array), "doc" (the version 2.0 object) or "legacy" (a      *)
(* bare array).  An item of a file is a JSON object with each key present   *)
(* or absent, or some other JSON value (dict = FALSE).                      *)

KeepCount == 10

File(kind, updated_at, items) ==
    [kind |-> kind, updated_at |-> updated_at, items |-> items]
MissingFile == File("missing", 0, <<>>)

NoneT == [some |-> FALSE, v |-> <<>>]
\* created_at as an ISO-8601 string: valid says whether fromisoformat accepts it
NoneC == [some |-> FALSE, valid |-> TRUE, v |-> 0]
Iso(t) == [some |-> TRUE, valid |-> TRUE, v |-> t]

Item(dict, label, secret, issuer, algorithm, digits, period, tags, created_at) ==
    [dict |-> dict, label |-> label, secret |-> secret, issuer |-> issuer,
     algorithm |-> algorithm, digits |-> digits, period |-> period,
     tags |-> tags, created_at |-> created_at]

\* entry_data of save(): every key written, created_at.isoformat()
ItemOfEntry(e) ==
    Item(TRUE, Some(e.label), Some(e.secret), e.issuer,
         [some |-> TRUE, v |-> e.algorithm], SomeI(e.digits), SomeI(e.period),
         [some |-> TRUE, v |-> e.tags], Iso(e.created_at))

\* reads every key but "issuer"
EntryOfItemNoIssuer(item, t) ==
    OTPEntry(IF item.label.some THEN item.label.v ELSE <<"U","n","k","n","o","w","n">>,
             IF item.secret.some THEN item.secret.v ELSE <<>>,
             NoneV,
             IF item.algorithm.some THEN item.algorithm.v ELSE "SHA1",
             IF item.digits.some THEN item.digits.v ELSE 6,
             IF item.period.some THEN item.period.v ELSE 30,
             IF item.tags.some THEN item.tags.v ELSE <<>>,
             IF item.created_at.some THEN item.created_at.v ELSE t)

\* the OTPEntry load() builds from an item of the version 2.0 format
EntryOfItem(item, t) ==
    OTPEntry(IF item.label.some THEN item.label.v ELSE <<"U","n","k","n","o","w","n">>,
             IF item.secret.some THEN item.secret.v ELSE <<>>,
             item.issuer,
             IF item.algorithm.some THEN item.algorithm.v ELSE "SHA1",
             IF item.digits.some THEN item.digits.v ELSE 6,
             IF item.period.some THEN item.period.v ELSE 30,
             IF item.tags.some THEN item.tags.v ELSE <<>>,
             IF item.created_at.some THEN item.created_at.v ELSE t)

\* the OTPEntry load() builds from an item of the legacy format
LegacyEntryOfItem(item, t) ==
    OTPEntry(IF item.label.some THEN item.label.v ELSE <<"U","n","k","n","o","w","n">>,
             IF item.secret.some THEN item.secret.v ELSE <<>>,
             NoneV, "SHA1", 6, 30, <<>>, t)

\* item.get(...) on a non-object, or fromisoformat of a bad string, raises
ItemRaises(item, legacy) ==
    \/ ~item.dict
    \/ ~legacy /\ item.created_at.some /\ ~item.created_at.valid

\* the loops of load() and _restore_from_backup() over the items: entries are
\* added to es until an item raises
RECURSIVE LoadItems(_, _, _, _)
LoadItems(es, items, legacy, t) ==
    IF items = <<>> THEN [raised |-> FALSE, entries |-> es]
    ELSE IF ItemRaises(Head(items), legacy) THEN [raised |-> TRUE, entries |-> es]
    ELSE LoadItems(
            AddEntry(es, IF legacy THEN LegacyEntryOfItem(Head(items), t)
                         ELSE EntryOfItem(Head(items), t)).entries,
            Tail(items), legacy, t)

\* open + json.load + the loop, on a file that exists, into the manager es
ReadInto(es, file, t) ==
    IF file.kind \in {"unparsable", "scalar", "missing"}
    THEN [raised |-> TRUE, entries |-> es]
    ELSE LoadItems(es, file.items, file.kind = "legacy", t)

\* sorted(self.backup_dir.glob("otp_data_*.json")): the names, oldest first
RECURSIVE SortedNames(_)
SortedNames(names) ==
    IF names = {} THEN <<>>
    ELSE LET m == CHOOSE n \in names : \A o \in names : n <= o
         IN  <<m>> \o SortedNames(names \ {m})

RestoreFromBackupNoCatch(es, dir, t) ==
    IF DOMAIN dir = {}
    THEN [raised |-> FALSE, ok |-> FALSE, entries |-> es]
    ELSE LET names == SortedNames(DOMAIN dir)
             r == ReadInto(es, dir[names[Len(names)]], t)
         IN  [raised |-> r.raised, ok |-> ~r.raised, entries |-> r.entries]

\* StorageManager._restore_from_backup(otp_manager): the newest backup is read
\* into the manager it is given; whatever is raised is caught
RestoreFromBackup(es, dir, t) ==
    IF DOMAIN dir = {}
    THEN [raised |-> FALSE, ok |-> FALSE, entries |-> es]
    ELSE LET names == SortedNames(DOMAIN dir)
             r == ReadInto(es, dir[names[Len(names)]], t)
         IN  [raised |-> FALSE, ok |-> ~r.raised, entries |-> r.entries]

\* StorageManager.load().  When reading the data file raises, the manager
\* handed to _restore_from_backup is the one load() was filling if json.load
\* had returned ('otp_manager' in locals()), a new one otherwise.
Load(file, dir, t) ==
    IF file.kind = "missing"
    THEN [raised |-> FALSE, entries |-> <<>>]
    ELSE LET r == ReadInto(<<>>, file, t)
         IN  IF ~r.raised
             THEN [raised |-> FALSE, entries |-> r.entries]
             ELSE LET b == RestoreFromBackup(
                              IF file.kind = "unparsable" THEN <<>> ELSE r.entries,
                              dir, t)
                  IN  IF b.raised THEN [raised |-> TRUE, entries |-> <<>>]
                      ELSE IF b.ok THEN [raised |-> FALSE, entries |-> b.entries]
                      ELSE [raised |-> FALSE, entries |-> <<>>]

\* StorageManager._cleanup_old_backups: all but the keep_count last names go
CleanupOldBackups(dir) ==
    LET names == SortedNames(DOMAIN dir)
        kept == IF Len(names) > KeepCount
                THEN {names[i] : i \in (Len(names) - KeepCount + 1)..Len(names)}
                ELSE DOMAIN dir
    IN  [n \in kept |-> dir[n]]

\* StorageManager._create_backup: copy the data file to
\* otp_data_<strftime("%Y%m%d_%H%M%S")>.json, a name with the second t in it
\* (a backup of the same second is overwritten), then clean up
CreateBackup(file, dir, t) ==
    CleanupOldBackups([n \in DOMAIN dir \cup {t} |-> IF n = t THEN file ELSE dir[n]])

\* StorageManager.save(): the document, the backup of the file that exists,
\* the write
Save(es, file, dir, t) ==
    [file |-> File("doc", t, [i \in 1..Len(es) |-> ItemOfEntry(es[i])]),
     dir |-> IF file.kind # "missing" THEN CreateBackup(file, dir, t) ELSE dir]

-----------------------------------------------------------------------------
(* save() with file operations that fail: src/core/storage.py.             *)
(* io.copy_ok says whether shutil.copy2 in _create_backup succeeds;         *)
(* io.write is "ok", "open_fails" (open(data_file, 'w') raises, the file is *)
(* left as it was) or "dump_fails" (json.dump raises after the file was     *)
(* truncated, leaving text that is no JSON).                                *)

SaveIo(copy_ok, write) == [copy_ok |-> copy_ok, write |-> write]

\* StorageManager.save(): _create_backup catches the failure of its copy and
\* save() goes on to the write; a failure of the write is caught by save(),
\* which then returns False
SaveWith(es, file, dir, t, io) ==
    LET s == Save(es, file, dir, t)
        d == IF io.copy_ok THEN s.dir ELSE dir
    IN  IF io.write = "ok" THEN [ok |-> TRUE, file |-> s.file, dir |-> d]
        ELSE IF io.write = "open_fails" THEN [ok |-> FALSE, file |-> file, dir |-> d]
        ELSE [ok |-> FALSE, file |-> File("unparsable", t, <<>>), dir |-> d]

-----------------------------------------------------------------------------
(* Settings: src/core/settings.py.                                         *)
(* A JSON value is a scalar (held as its text) or a map.  A tree maps keys  *)
(* to nodes; a node of default_settings is a scalar ("s") or a map object   *)
(* ("d").  dict.copy() is shallow: a node of _settings is a scalar, a map   *)
(* object of its own ("own"), or the very map object that default_settings  *)
(* holds under the same key ("shared"), whose content is then read from,    *)
(* and written to, default_settings.                                        *)

S(v) == [t |-> "s", v |-> v, d |-> <<>>]
D(d) == [t |-> "d", v |-> "", d |-> d]
Own(d) == [t |-> "own", v |-> "", d |-> d]
Shared == [t |-> "shared", v |-> "", d |-> <<>>]

\* self.default_settings as written in __init__
CompiledDefaults ==
    [ language |-> S("zh_TW"),
      theme |-> S("dark"),
      window |-> D([width |-> "450", height |-> "700", x |-> "null", y |-> "null"]),
      auto_backup |-> S("true"),
      backup_count |-> S("10"),
      show_progress |-> S("true"),
      auto_copy |-> S("false"),
      notifications |-> D([enabled |-> "true", sound |-> "false"]),
      security |-> D([auto_lock |-> "false", lock_timeout |-> "300",
                      require_password |-> "false"]) ]

\* self.default_settings.copy(): the scalars are copied, the maps are shared
DefaultsCopy(defaults) ==
    [k \in DOMAIN defaults |-> IF defaults[k].t = "d" THEN Shared ELSE defaults[k]]

\* the tree _settings stands for: what get() reads and json.dump writes
Resolve(tree, defaults) ==
    [k \in DOMAIN tree |->
        IF tree[k].t = "shared" THEN D(defaults[k].d)
        ELSE IF tree[k].t = "own" THEN D(tree[k].d)
        ELSE tree[k]]

\* one level of _merge_settings on two maps of scalars
MergeMaps(base, over) ==
    [j \in DOMAIN base \cup DOMAIN over |-> IF j \in DOMAIN over THEN over[j] ELSE base[j]]

MergeSettingsShallow(defaults, file_tree) ==
    [k \in DOMAIN defaults \cup DOMAIN file_tree |->
        IF k \notin DOMAIN file_tree
        THEN (IF defaults[k].t = "d" THEN Shared ELSE defaults[k])
        ELSE IF file_tree[k].t = "d" THEN Own(file_tree[k].d)
        ELSE file_tree[k]]

\* SettingsManager._merge_settings(self.default_settings, loaded)
MergeSettings(defaults, file_tree) ==
    [k \in DOMAIN defaults \cup DOMAIN file_tree |->
        IF k \notin DOMAIN file_tree
        THEN (IF defaults[k].t = "d" THEN Shared ELSE defaults[k])
        ELSE IF k \in DOMAIN defaults /\ defaults[k].t = "d" /\ file_tree[k].t = "d"
        THEN Own(MergeMaps(defaults[k].d, file_tree[k].d))
        ELSE IF file_tree[k].t = "d" THEN Own(file_tree[k].d)
        ELSE file_tree[k]]

\* the settings file: kind "missing", "unparsable" (json.load raises),
\* "notobject" (JSON without .items()) or "object" with its tree
SettingsFile(kind, tree) == [kind |-> kind, tree |-> tree]

\* SettingsManager.load(): the new _settings
LoadSettings(defaults, file) ==
    IF file.kind = "object" THEN MergeSettings(defaults, file.tree)
    ELSE DefaultsCopy(defaults)

\* SettingsManager.set(key, value) before the save: key.split('.') is path,
\* a top-level value is a node, a nested value a scalar text
SetPath(tree, defaults, path, value) ==
    IF Len(path) = 1
    THEN [ok |-> TRUE, defaults |-> defaults,
          tree |-> [k \in DOMAIN tree \cup {path[1]} |->
                       IF k = path[1]
                       THEN (IF value.t = "d" THEN Own(value.d) ELSE value)
                       ELSE tree[k]]]
    ELSE LET k == path[1]
             j == path[2]
         IN  IF k \notin DOMAIN tree
             THEN [ok |-> TRUE, defaults |-> defaults,
                   tree |-> [x \in DOMAIN tree \cup {k} |->
                                IF x = k THEN Own([y \in {j} |-> value.v]) ELSE tree[x]]]
             ELSE IF tree[k].t = "s"
             THEN [ok |-> FALSE, defaults |-> defaults, tree |-> tree]
             ELSE IF tree[k].t = "own"
             THEN [ok |-> TRUE, defaults |-> defaults,
                   tree |-> [tree EXCEPT ![k] =
                                Own(MergeMaps(tree[k].d, [y \in {j} |-> value.v]))]]
             ELSE [ok |-> TRUE, tree |-> tree,
                   defaults |-> [defaults EXCEPT ![k] =
                                D(MergeMaps(defaults[k].d, [y \in {j} |-> value.v]))]]

\* SettingsManager.save(): json.dump(self._settings)
SavedSettings(tree, defaults) == SettingsFile("object", Resolve(tree, defaults))

-----------------------------------------------------------------------------
(* Codes and the clock: src/core/otp_manager.py.  A code is held as the    *)
(* inputs pyotp computes it from: the HMAC-based truncation is taken to     *)
(* give different codes for different inputs.                               *)

\* pyotp.TOTP(secret, digits=, interval=): digest is left at its default
DefaultDigest == "SHA1"

\* pyotp.TOTP.at(t): the code of time step t // interval
TotpCode(secret, digits, interval, digest, t) ==
    [secret |-> secret, digits |-> digits, counter |-> t \div interval,
     digest |-> digest]

NoCode == [some |-> FALSE, code |-> <<>>, remaining |-> 0]
SomeCode(code, remaining) == [some |-> TRUE, code |-> code, remaining |-> remaining]

\* OTPManager.generate_otp(label) at clock t
GenerateOtp(es, label, t) ==
    IF ~HasLabel(es, label) THEN NoCode
    ELSE LET entry == GetEntry(es, label)
         IN  IF entry.period = 0 THEN NoCode
             ELSE SomeCode(TotpCode(entry.secret, entry.digits, entry.period,
                                    DefaultDigest, t), 0)

\* OTPManager.get_otp_with_remaining_time(label) at clock t
GetOtpWithRemainingTime(es, label, t) ==
    IF ~HasLabel(es, label) THEN NoCode
    ELSE LET entry == GetEntry(es, label)
         IN  IF entry.period = 0 THEN NoCode
             ELSE SomeCode(TotpCode(entry.secret, entry.digits, entry.period,
                                    DefaultDigest, t),
                           entry.period - (t % entry.period))

\* a float quotient, kept as its numerator and denominator
Frac(num, den) == [num |-> num, den |-> den]

GetProgressDefaultPeriod(es, label, t) ==
    IF ~HasLabel(es, label) THEN Frac(0, 1)
    ELSE Frac(t % 30, 30)

\* OTPManager.get_progress(label) at clock t
GetProgress(es, label, t) ==
    IF ~HasLabel(es, label) THEN Frac(0, 1)
    ELSE LET entry == GetEntry(es, label)
             elapsed == t % entry.period
         IN  Frac(elapsed, entry.period)

-----------------------------------------------------------------------------
(* Languages: src/utils/i18n.py.  A catalog is a JSON value: a string, a   *)
(* map from keys to values, or any other value (number, list, null).       *)

JStr(s) == [t |-> "s", s |-> s, d |-> <<>>]
JMap(d) == [t |-> "d", s |-> <<>>, d |-> d]
JOther == [t |-> "n", s |-> <<>>, d |-> <<>>]

\* a dict literal: the map of a set of <<key, value>> pairs
MapOf(pairs) ==
    [k \in {p[1] : p \in pairs} |-> (CHOOSE p \in pairs : p[1] = k)[2]]

IsLetter(c) ==
    \E i \in 1..26 : UpperLetters[i] = c \/ LowerLetters[i] = c

\* VALID_LANGUAGE_PATTERN.match(code): ^[a-zA-Z]{2}_[a-zA-Z]{2}$, where $
\* also matches before a final newline
MatchesLanguagePattern(code) ==
    /\ Len(code) \in {5, 6}
    /\ IsLetter(code[1]) /\ IsLetter(code[2])
    /\ code[3] = "_"
    /\ IsLetter(code[4]) /\ IsLetter(code[5])
    /\ Len(code) = 6 => code[6] = "\n"

\* LanguageManager._validate_language_code
ValidateLanguageCode(allowed, code) ==
    IF code = <<>> THEN FALSE
    ELSE IF allowed # {} /\ code \in allowed THEN TRUE
    ELSE MatchesLanguagePattern(code)

\* a file of the locales directory: kind "missing", "unparsable" (json.load
\* raises) or "json" with the value it holds
LocaleFile(kind, value) == [kind |-> kind, value |-> value]
NoLocaleFile == LocaleFile("missing", JOther)

\* locale_file = self._locales_dir / f"{language_code}.json"
LocaleFileOf(dir, code) == IF code \in DOMAIN dir THEN dir[code] ELSE NoLocaleFile

\* LanguageManager._load_language
LoadLanguage(cache, allowed, dir, code) ==
    LET file == LocaleFileOf(dir, code)
    IN  IF ValidateLanguageCode(allowed, code) /\ file.kind = "json"
        THEN [ok |-> TRUE,
              translations |-> [c \in DOMAIN cache \cup {code} |->
                                  IF c = code THEN file.value ELSE cache[c]],
              allowed |-> allowed \cup {code}]
        ELSE [ok |-> FALSE, translations |-> cache, allowed |-> allowed]

\* key.split('.')
RECURSIVE Split(_, _)
Split(s, c) ==
    LET i == FindChar(s, c)
    IN  IF i = 0 THEN <<s>>
        ELSE <<SubSeq(s, 1, i - 1)>> \o Split(SubSeq(s, i + 1, Len(s)), c)

\* the loop of t() over the keys: found is FALSE at the first return key
RECURSIVE Walk(_, _)
Walk(value, keys) ==
    IF keys = <<>> THEN [found |-> TRUE, value |-> value]
    ELSE IF value.t = "d" /\ Head(keys) \in DOMAIN value.d
    THEN Walk(value.d[Head(keys)], Tail(keys))
    ELSE [found |-> FALSE, value |-> value]

TranslateFirstSegment(cache, current, key) ==
    LET catalog == IF current \in DOMAIN cache THEN cache[current] ELSE JMap(<<>>)
        r == Walk(catalog, <<Head(Split(key, "."))>>)
    IN  IF r.found /\ r.value.t = "s" THEN r.value.s ELSE key

\* LanguageManager.t(key) without format arguments
Translate(cache, current, key) ==
    LET catalog == IF current \in DOMAIN cache THEN cache[current] ELSE JMap(<<>>)
        r == Walk(catalog, Split(key, "."))
    IN  IF ~r.found THEN key
        ELSE IF r.value.t # "s" THEN key
        ELSE r.value.s

\* LanguageManager.add_observer
AddObserver(obs, callback) ==
    IF \E i \in 1..Len(obs) : obs[i] = callback THEN obs ELSE Append(obs, callback)

\* LanguageManager.remove_observer
RemoveObserver(obs, callback) == SelectSeq(obs, LAMBDA o : o # callback)

\* a registered callback: the bound method of an owner (of the card of a
\* label, when the owner is a card)
Callback(owner, label) == [owner |-> owner, label |-> label]

\* what an observer does when it is called, as the new observer list and
\* whether the call raised an Exception: "mutator" removes the observer
\* "plain", adds the observer "late" and then raises, the others return
ObserverCall(obs, callback) ==
    IF callback.owner = "mutator"
    THEN [observers |-> AddObserver(RemoveObserver(obs, Callback("plain", <<>>)),
                                    Callback("late", <<>>)),
          raised |-> TRUE]
    ELSE [observers |-> obs, raised |-> FALSE]

RECURSIVE NotifyFrom(_, _, _, _, _)
NotifyFrom(snapshot, i, obs, calls, old_language) ==
    IF i > Len(snapshot) THEN [observers |-> obs, calls |-> calls, raised |-> FALSE]
    ELSE LET r == ObserverCall(obs, snapshot[i])
         IN  NotifyFrom(snapshot, i + 1, r.observers,
                        Append(calls, [callback |-> snapshot[i], arg |-> old_language]),
                        old_language)

RECURSIVE NotifyFromNoCatch(_, _, _, _, _)
NotifyFromNoCatch(snapshot, i, obs, calls, old_language) ==
    IF i > Len(snapshot) THEN [observers |-> obs, calls |-> calls, raised |-> FALSE]
    ELSE LET r == ObserverCall(obs, snapshot[i])
             c == Append(calls, [callback |-> snapshot[i], arg |-> old_language])
         IN  IF r.raised THEN [observers |-> r.observers, calls |-> c, raised |-> TRUE]
             ELSE NotifyFromNoCatch(snapshot, i + 1, r.observers, c, old_language)

NotifyObserversNoCatch(obs, old_language) ==
    NotifyFromNoCatch(obs, 1, obs, <<>>, old_language)

\* LanguageManager._notify_observers: the loop over self._observers[:]
NotifyObservers(obs, old_language) == NotifyFrom(obs, 1, obs, <<>>, old_language)

\* the manager's fields as one record, for the operations that return them
Manager(current, cache, obs, allowed) ==
    [current_language |-> current, translations |-> cache,
     observers |-> obs, allowed_languages |-> allowed]

NoRound == [observers |-> <<>>, calls |-> <<>>, raised |-> FALSE]

SetLanguageNotifiesNew(mgr, dir, code) ==
    IF ~ValidateLanguageCode(mgr.allowed_languages, code)
    THEN [ok |-> FALSE, mgr |-> mgr, round |-> NoRound]
    ELSE LET l == IF code \in DOMAIN mgr.translations
                  THEN [ok |-> TRUE, translations |-> mgr.translations,
                        allowed |-> mgr.allowed_languages]
                  ELSE LoadLanguage(mgr.translations, mgr.allowed_languages, dir, code)
         IN  IF ~l.ok THEN [ok |-> FALSE, mgr |-> mgr, round |-> NoRound]
             ELSE LET n == NotifyObservers(mgr.observers, code)
                  IN  [ok |-> TRUE, round |-> n,
                       mgr |-> Manager(code, l.translations, n.observers, l.allowed)]

\* LanguageManager.set_language
SetLanguage(mgr, dir, code) ==
    IF ~ValidateLanguageCode(mgr.allowed_languages, code)
    THEN [ok |-> FALSE, mgr |-> mgr, round |-> NoRound]
    ELSE LET l == IF code \in DOMAIN mgr.translations
                  THEN [ok |-> TRUE, translations |-> mgr.translations,
                        allowed |-> mgr.allowed_languages]
                  ELSE LoadLanguage(mgr.translations, mgr.allowed_languages, dir, code)
         IN  IF ~l.ok THEN [ok |-> FALSE, mgr |-> mgr, round |-> NoRound]
             ELSE LET n == NotifyObservers(mgr.observers, mgr.current_language)
                  IN  [ok |-> TRUE, round |-> n,
                       mgr |-> Manager(code, l.translations, n.observers, l.allowed)]

\* LanguageManager.reload_language(language_code)
ReloadLanguage(mgr, dir, code) ==
    LET dropped == [c \in DOMAIN mgr.translations \ {code} |-> mgr.translations[c]]
        l == LoadLanguage(dropped, mgr.allowed_languages, dir, code)
    IN  IF l.ok /\ code = mgr.current_language
        THEN LET n == NotifyObservers(mgr.observers, mgr.current_language)
             IN  [ok |-> TRUE, round |-> n,
                  mgr |-> Manager(mgr.current_language, l.translations,
                                  n.observers, l.allowed)]
        ELSE [ok |-> l.ok, round |-> NoRound,
              mgr |-> Manager(mgr.current_language, l.translations,
                              mgr.observers, l.allowed)]

\* LanguageManager.get_available_languages: the codes added to the whitelist
AvailableLanguages(allowed, dir) ==
    {c \in DOMAIN dir : dir[c].kind # "missing" /\ ValidateLanguageCode(allowed, c)}

\* language codes and the catalogs shipped for them
ZhTW == <<"z","h","_","T","W">>
EnUS == <<"e","n","_","U","S">>
FrFR == <<"f","r","_","F","R">>
BadCode == <<"e","n","g","l","i","s","h">>

KeyApp == <<"a","p","p">>
KeyTitle == <<"t","i","t","l","e">>
KeyVersion == <<"v","e","r","s","i","o","n">>
KeyOk == <<"o","k">>

CatalogZh ==
    JMap(MapOf({ <<KeyApp, JMap(MapOf({ <<KeyTitle, JStr(<<"Z","H">>)>>,
                                        <<KeyVersion, JOther>> }))>>,
                 <<KeyOk, JStr(<<"O","K">>)>> }))
CatalogEn ==
    JMap(MapOf({ <<KeyApp, JMap(MapOf({ <<KeyTitle, JStr(<<"E","N">>)>> }))>> }))

\* the locales directory as shipped
ShippedLocales ==
    MapOf({ <<ZhTW, LocaleFile("json", CatalogZh)>>,
            <<EnUS, LocaleFile("json", CatalogEn)>> })

-----------------------------------------------------------------------------
(* QR export and the backup bundle: src/utils/export_import.py,            *)
(* src/utils/qr_handler.py.                                                *)

\* unsafe_chars of _make_safe_filename
UnsafeChars == {"<", ">", ":", "\"", "/", "\\", "|", "?", "*"}

\* the length _make_safe_filename cuts a name to
SafeNameLimit == 200

\* ExportImportManager._make_safe_filename
MakeSafeFilename(name) ==
    LET replaced == [i \in 1..Len(name) |->
                        IF name[i] \in UnsafeChars THEN "_" ELSE name[i]]
        cut == IF Len(replaced) > SafeNameLimit
               THEN SubSeq(replaced, 1, SafeNameLimit) ELSE replaced
    IN  IF cut = <<>> THEN <<"u","n","n","a","m","e","d">> ELSE cut

PngSuffix == <<".", "p", "n", "g">>

\* batch_save_qr_codes: filename += '.png' unless it ends with it
PngName(filename) ==
    IF Len(filename) >= 4 /\ SubSeq(filename, Len(filename) - 3, Len(filename)) = PngSuffix
    THEN filename
    ELSE filename \o PngSuffix

\* the entries export_to_qr_codes has a URI for
WithUri(es) == SelectSeq(es, LAMBDA e : GenerateUri(e).some)

\* data_dict of export_to_qr_codes: safe filename -> URI, a later entry
\* replacing an earlier one of the same filename
DataDict(es) ==
    LET with == WithUri(es)
        names == {MakeSafeFilename(with[i].label) : i \in 1..Len(with)}
        LastOf(f) == CHOOSE i \in 1..Len(with) :
                        /\ MakeSafeFilename(with[i].label) = f
                        /\ \A j \in (i + 1)..Len(with) : MakeSafeFilename(with[j].label) # f
    IN  [f \in names |-> GenerateUri(with[LastOf(f)])]

\* ExportImportManager.export_to_qr_codes with QRHandler.batch_save_qr_codes:
\* the success map, where every image is saved or none can be (writable)
ExportToQrCodes(es, writable) ==
    LET data_dict == DataDict(es)
    IN  [f \in {PngName(n) : n \in DOMAIN data_dict} |-> writable]

\* the outcome of the file operations of create_backup, as the file system
\* decides them
BundleIo(dir_ok, json_ok, csv_ok, qr_dir_ok, qr_writable, info_ok) ==
    [dir_ok |-> dir_ok, json_ok |-> json_ok, csv_ok |-> csv_ok,
     qr_dir_ok |-> qr_dir_ok, qr_writable |-> qr_writable, info_ok |-> info_ok]

NoPath == [some |-> FALSE, name |-> <<>>, timestamp |-> 0]
SomePath(name, timestamp) == [some |-> TRUE, name |-> name, timestamp |-> timestamp]

\* ExportImportManager.create_backup: the path returned
CreateBackupBundle(es, backup_name, t, io) ==
    IF ~io.dir_ok THEN NoPath              \* backup_path.mkdir raises
    ELSE IF ~io.json_ok THEN NoPath        \* export_json returned False
    ELSE IF ~io.qr_dir_ok THEN NoPath      \* output_path.mkdir raises
    ELSE IF ~io.info_ok THEN NoPath        \* open(info_path, 'w') raises
    ELSE SomePath(IF backup_name # <<>> THEN backup_name
                  ELSE <<"b","a","c","k","u","p">>, t)

-----------------------------------------------------------------------------
(* The main window: src/ui/main_window.py, and the cards it shows:         *)
(* src/ui/components/otp_card.py.  A card is held as what it displays.      *)
(* An exception raised in MainWindow.__init__ propagates to main(), where   *)
(* nothing catches it; one raised in a callback that Tk runs is reported    *)
(* by Tk and the event loop goes on.                                        *)

\* str.lower, one character
ToLower(c) ==
    IF \E i \in 1..Len(UpperLetters) : UpperLetters[i] = c
    THEN LowerLetters[CHOOSE i \in 1..Len(UpperLetters) : UpperLetters[i] = c]
    ELSE c

Lower(s) == [i \in 1..Len(s) |-> ToLower(s[i])]

\* sub in s
Contains(s, sub) ==
    \E i \in 0..(Len(s) - Len(sub)) : SubSeq(s, i + 1, i + Len(sub)) = sub

RECURSIVE SearchFrom(_, _, _)
SearchFrom(es, i, query) ==
    IF i > Len(es) THEN <<>>
    ELSE LET entry == es[i]
             hit == \/ Contains(Lower(entry.label), query)
                    \/ Truthy(entry.issuer) /\ Contains(Lower(entry.issuer.v), query)
                    \/ \E k \in 1..Len(entry.tags) : Contains(Lower(entry.tags[k]), query)
         IN  (IF hit THEN <<entry>> ELSE <<>>) \o SearchFrom(es, i + 1, query)

\* OTPManager.search_entries
SearchEntries(es, query) == SearchFrom(es, 1, Lower(query))

\* the names an OTPCard has when __init__ reaches its line 63: the methods
\* the class defines and the attributes set before that line (the frame
\* classes it inherits from define no _on_language_changed and no
\* __getattr__)
OTPCardAttributes ==
    { "__init__", "_create_widgets", "_format_otp", "_handle_copy",
      "_handle_delete", "_show_copy_feedback", "_fade_out_tooltip",
      "update_display", "set_hover_effect", "pulse_animation", "destroy",
      "label", "issuer", "otp_code", "progress", "period", "on_copy",
      "on_edit", "on_delete", "progress_widget", "issuer_label",
      "label_widget", "otp_label", "edit_btn", "delete_btn", "copy_tooltip" }

\* what a card shows as its code: the default "000000", or a code pushed in
Placeholder == [pushed |-> FALSE, code |-> NoCode.code]
Pushed(code) == [pushed |-> TRUE, code |-> code]

\* OTPCard.__init__(label=, issuer=): the card, the observer list after it,
\* and whether it raised; self._on_language_changed is an attribute lookup,
\* which raises AttributeError for a name the instance does not have
NewCard(label, issuer, obs) ==
    IF "_on_language_changed" \notin OTPCardAttributes
    THEN [raised |-> TRUE, observers |-> obs]
    ELSE [raised |-> FALSE,
          card |-> [label |-> label, issuer |-> issuer,
                    otp_code |-> Placeholder, progress |-> Frac(0, 1)],
          observers |-> AddObserver(obs, Callback("card", label))]

\* OTPCard.update_display(otp_code=, progress=)
UpdateDisplay(card, otp_code, progress) ==
    [card EXCEPT !.otp_code = Pushed(otp_code), !.progress = progress]

\* OTPCard.destroy for every card of the mapping: hasattr guards the removal
RECURSIVE DestroyCards(_, _)
DestroyCards(cards, obs) ==
    IF cards = <<>> THEN obs
    ELSE DestroyCards(Tail(cards),
                      RemoveObserver(obs, Callback("card", Head(cards).label)))

\* self.otp_cards[entry.label] = card
MapCard(cards, card) ==
    IF \E i \in 1..Len(cards) : cards[i].label = card.label
    THEN [i \in 1..Len(cards) |->
             IF cards[i].label = card.label THEN card ELSE cards[i]]
    ELSE Append(cards, card)

\* the loop of _refresh_otp_list over the entries to show
RECURSIVE BuildCards(_, _, _)
BuildCards(shown, cards, obs) ==
    IF shown = <<>> THEN [raised |-> FALSE, cards |-> cards, observers |-> obs]
    ELSE LET c == NewCard(Head(shown).label, Head(shown).issuer, obs)
         IN  IF c.raised
             THEN [raised |-> TRUE, cards |-> cards, observers |-> c.observers]
             ELSE BuildCards(Tail(shown), MapCard(cards, c.card), c.observers)

\* MainWindow._refresh_otp_list: the old cards are destroyed and the mapping
\* cleared, then one card is built per entry to show
RefreshOtpList(es, query, cards, obs) ==
    LET shown == IF query # <<>> THEN SearchEntries(es, query) ELSE es
    IN  BuildCards(shown, <<>>, DestroyCards(cards, obs))

\* the EmptyState widget: src/ui/components/empty_state.py.  on_action is
\* set at construction only, and _create_widgets builds the action button
\* whenever it is set
EmptyState(title, description, icon, on_action, packed) ==
    [title |-> title, description |-> description, icon |-> icon,
     on_action |-> on_action, packed |-> packed]

\* a text t(key, query=...) returns
Text(key, query) == [key |-> key, query |-> query]

\* self.empty_state as _create_main_content constructs it
NoOtpState ==
    EmptyState(Text("empty_state.no_otp.title", <<>>),
               Text("empty_state.no_otp.description", <<>>),
               "lock", TRUE, FALSE)

\* EmptyState.update_content(title, description, icon)
UpdateContent(empty, title, description, icon) ==
    [empty EXCEPT !.title = title, !.description = description, !.icon = icon]

\* MainWindow._refresh_otp_list: the empty state is packed, with the
\* no-results content when a query is set, or hidden before the cards are
\* built
RefreshEmptyState(empty, es, query) ==
    LET shown == IF query # <<>> THEN SearchEntries(es, query) ELSE es
    IN  IF shown # <<>> THEN [empty EXCEPT !.packed = FALSE]
        ELSE IF query # <<>>
        THEN [UpdateContent(empty, Text("search.no_results", <<>>),
                            Text("search.no_results_desc", query), "search")
                EXCEPT !.packed = TRUE]
        ELSE [empty EXCEPT !.packed = TRUE]

\* the loop of _update_otp_codes over the mapping
UpdateCards(cards, es, t) ==
    [i \in 1..Len(cards) |->
        LET result == GetOtpWithRemainingTime(es, cards[i].label, t)
        IN  IF result.some
            THEN UpdateDisplay(cards[i], result.code,
                               GetProgress(es, cards[i].label, t))
            ELSE cards[i]]

UpdateOtpCodesOnce(cards, es, t) ==
    [cards |-> UpdateCards(cards, es, t), scheduled |-> FALSE]

\* MainWindow._update_otp_codes: the cards, and whether the next call is
\* scheduled with after(1000, ...)
UpdateOtpCodes(cards, es, t) ==
    [cards |-> UpdateCards(cards, es, t), scheduled |-> TRUE]

-----------------------------------------------------------------------------
(* Inputs *)

Work == <<"W","o","r","k">>
Mail == <<"M","a","i","l">>
Bank == <<"B","a","n","k">>
Acme == <<"A","c","m","e">>
SecretA == <<"J","B","S","W","Y","3","D","P">>
SecretB == <<"g","e","z","d","g","n","b","v">>
\* '1' is no base32 digit
BadSecret == <<"J","B","1">>

EntryInputs ==
    { OTPEntry(Work, SecretA, NoneV, "SHA1", 6, 30, <<>>, 0),
      OTPEntry(Work, SecretB, Some(Acme), "SHA256", 8, 60, <<>>, 0),
      OTPEntry(Mail, SecretA, Some(Acme), "SHA1", 6, 30, <<Work>>, 0),
      OTPEntry(Mail, BadSecret, NoneV, "SHA1", 6, 30, <<>>, 0),
      OTPEntry(Bank, SecretB, NoneV, "SHA512", 6, 30, <<>>, 0) }

LabelInputs == {Work, Mail, Bank}

-----------------------------------------------------------------------------
(* The collection's operations as steps.  last records the step: the      *)
(* operation, its arguments, the collection before it and what it          *)
(* returned; prev is the add that came right before it, if one did.        *)

Op(op, label, arg, payload, before, ok, labels, result) ==
    [op |-> op, label |-> label, arg |-> arg, payload |-> payload,
     before |-> before, ok |-> ok, labels |-> labels, result |-> result]

NoOp == Op("none", <<>>, <<>>, <<>>, <<>>, FALSE, <<>>, <<>>)

PrevOf(l) == IF l.op = "add" THEN l ELSE NoOp

\* the storage manager and the settings manager at rest
StorageIdle ==
    /\ now = 0
    /\ data_file = MissingFile
    /\ backups = <<>>
    /\ saves = 0
    /\ loaded = [done |-> FALSE, raised |-> FALSE, entries |-> <<>>]

SettingsIdle ==
    /\ default_settings = CompiledDefaults
    /\ settings = DefaultsCopy(CompiledDefaults)
    /\ settings_file = SettingsFile("missing", <<>>)
    /\ slast = [op |-> "none", ok |-> TRUE]

\* the language manager after __init__ over the shipped locales, at rest
I18nIdle ==
    /\ locales_dir = ShippedLocales
    /\ current_language = ZhTW
    /\ translations = MapOf({<<ZhTW, CatalogZh>>})
    /\ observers = <<>>
    /\ allowed_languages = {ZhTW}
    /\ ilast = [op |-> "none"]

\* no main window built
UiIdle ==
    /\ phase = "starting"
    /\ otp_cards = <<>>
    /\ search_query = <<>>
    /\ status_label = <<>>
    /\ status_timers = 0
    /\ empty_state = NoOtpState
    /\ tick_scheduled = FALSE
    /\ close_handler = FALSE
    /\ ulast = [op |-> "none"]

OtpIdle ==
    /\ entries = <<>>
    /\ last = NoOp
    /\ prev = NoOp

Init == OtpIdle /\ StorageIdle /\ SettingsIdle /\ I18nIdle /\ UiIdle

\* OTPManager.add_entry
DoAdd(e) ==
    LET r == AddEntry(entries, e)
    IN  /\ entries' = r.entries
        /\ last' = Op("add", e.label, <<e>>, <<>>, entries, r.ok, <<>>, <<>>)
        /\ prev' = PrevOf(last)
        /\ UNCHANGED <<storageVars, settingsVars, i18nVars, uiVars>>

\* OTPManager.remove_entry
DoRemove(l) ==
    LET r == RemoveEntry(entries, l)
    IN  /\ entries' = r.entries
        /\ last' = Op("remove", l, <<>>, <<>>, entries, r.ok, <<>>, <<>>)
        /\ prev' = PrevOf(last)
        /\ UNCHANGED <<storageVars, settingsVars, i18nVars, uiVars>>

\* OTPManager.update_entry
DoUpdate(old_label, e) ==
    LET r == UpdateEntry(entries, old_label, e)
    IN  /\ entries' = r.entries
        /\ last' = Op("update", old_label, <<e>>, <<>>, entries, r.ok, <<>>, <<>>)
        /\ prev' = PrevOf(last)
        /\ UNCHANGED <<storageVars, settingsVars, i18nVars, uiVars>>

\* StorageManager.export_json to a file, then StorageManager.import_json of it
DoExportImportJson ==
    /\ last' = Op("roundtrip", <<>>, <<>>, <<>>, entries, TRUE, <<>>,
                  ImportJson(ExportJson(entries), now))
    /\ prev' = PrevOf(last)
    /\ UNCHANGED <<entries, storageVars, settingsVars, i18nVars, uiVars>>

Next ==
    \/ \E e \in EntryInputs : DoAdd(e)
    \/ \E l \in LabelInputs : DoRemove(l)
    \/ \E l \in LabelInputs, e \in EntryInputs : DoUpdate(l, e)
    \/ DoExportImportJson

Spec == Init /\ [][Next]_vars

-----------------------------------------------------------------------------
(* The import flows as steps, over a collection that imports fill and      *)
(* removals thin out.                                                      *)

MaxEntries == 3
MaxContents == 1

UriWork == Uri("otpauth", "totp", Work, Some(SecretA), NoneV, NoneV, NoneI, NoneI)
UriAcmeWork ==
    Uri("otpauth", "totp", Acme \o <<":">> \o Work, Some(SecretB), NoneV,
        NoneV, SomeI(8), NoneI)
UriWorkBadSecret ==
    Uri("otpauth", "totp", Work, Some(BadSecret), NoneV, NoneV, NoneI, NoneI)
UriHotp == Uri("otpauth", "hotp", Work, Some(SecretA), NoneV, NoneV, NoneI, NoneI)

\* decoded QR contents, or lines of a text file
ContentInputs ==
    { [kind |-> "uri", uris |-> <<UriWork>>],
      [kind |-> "uri", uris |-> <<UriWorkBadSecret>>],
      [kind |-> "migration", uris |-> <<UriAcmeWork, UriHotp, UriWork>>],
      [kind |-> "other", uris |-> <<>>] }

ContentSeqs == UNION {[1..n -> ContentInputs] : n \in 0..MaxContents}

\* ExportImportManager.import_from_qr_image
DoImportQr(contents) ==
    LET r == ImportFromQrImage(entries, contents, now)
    IN  /\ Len(r.entries) <= MaxEntries
        /\ entries' = r.entries
        /\ last' = Op("import_qr", <<>>, <<>>, contents, entries, TRUE, r.imported, <<>>)
        /\ prev' = PrevOf(last)
        /\ UNCHANGED <<storageVars, settingsVars, i18nVars, uiVars>>

\* ExportImportManager.import_from_google_auth_format
DoImportGoogle(lines) ==
    LET r == ImportFromGoogleAuthFormat(entries, lines, now)
    IN  /\ Len(r.entries) <= MaxEntries
        /\ entries' = r.entries
        /\ last' = Op("import_google", <<>>, <<>>, lines, entries, TRUE, r.imported, <<>>)
        /\ prev' = PrevOf(last)
        /\ UNCHANGED <<storageVars, settingsVars, i18nVars, uiVars>>

NextImport ==
    \/ \E cs \in ContentSeqs : DoImportQr(cs)
    \/ \E ls \in ContentSeqs : DoImportGoogle(ls)
    \/ \E l \in LabelsOf(entries) : DoRemove(l)

SpecImport == Init /\ [][NextImport]_vars

-----------------------------------------------------------------------------
(* Saving over time: each save() is called in the second of the previous   *)
(* call or in the next one.                                                *)

MaxSaves == 12

\* seconds between two calls of save()
DelayInputs == {0, 1}

InitBackup ==
    /\ entries \in {<<>>, <<OTPEntry(Work, SecretA, NoneV, "SHA1", 6, 30, <<>>, 0)>>}
    /\ last = NoOp
    /\ prev = NoOp
    /\ StorageIdle
    /\ SettingsIdle
    /\ I18nIdle /\ UiIdle

\* StorageManager.save(otp_manager), called dt seconds after the call before
DoSave(dt) ==
    LET r == Save(entries, data_file, backups, now + dt)
    IN  /\ saves < MaxSaves
        /\ now' = now + dt
        /\ data_file' = r.file
        /\ backups' = r.dir
        /\ saves' = IF data_file.kind # "missing" THEN saves + 1 ELSE saves
        /\ UNCHANGED <<otpVars, loaded, settingsVars, i18nVars, uiVars>>

NextBackup == \E dt \in DelayInputs : DoSave(dt)

SpecBackup == InitBackup /\ [][NextBackup]_vars

-----------------------------------------------------------------------------
(* Loading: the data file and the backups directory are found in any of    *)
(* the conditions below when load() is called.                              *)

GoodItemA == ItemOfEntry(OTPEntry(Work, SecretA, NoneV, "SHA1", 6, 30, <<>>, 0))
GoodItemB == ItemOfEntry(OTPEntry(Work, SecretB, Some(Acme), "SHA256", 8, 60, <<>>, 0))
GoodItemC == ItemOfEntry(OTPEntry(Mail, SecretA, NoneV, "SHA1", 6, 30, <<>>, 0))
\* an entry of the array that is no JSON object
NotAnObject == Item(FALSE, NoneV, NoneV, NoneV, NoneV, NoneI, NoneI, NoneT, NoneC)
\* created_at is no ISO-8601 string
BadDateItem ==
    Item(TRUE, Some(Bank), Some(SecretA), NoneV, NoneV, NoneI, NoneI, NoneT,
         [some |-> TRUE, valid |-> FALSE, v |-> 0])
\* only label and secret, the secret unusable
BadSecretItem ==
    Item(TRUE, Some(Bank), Some(BadSecret), NoneV, NoneV, NoneI, NoneI, NoneT, NoneC)

ItemInputs == {GoodItemA, GoodItemB, GoodItemC, NotAnObject, BadDateItem, BadSecretItem}

MaxItems == 2

ItemSeqs == UNION {[1..n -> ItemInputs] : n \in 0..MaxItems}

DataFileInputs ==
    {MissingFile, File("unparsable", 0, <<>>), File("scalar", 0, <<>>)}
        \cup {File("doc", 0, items) : items \in ItemSeqs}
        \cup {File("legacy", 0, items) : items \in ItemSeqs}

BackupFileInputs ==
    { File("unparsable", 0, <<>>),
      File("doc", 0, <<GoodItemB, GoodItemC>>),
      File("doc", 0, <<GoodItemC, NotAnObject>>),
      File("legacy", 0, <<GoodItemA>>) }

\* no backup, one backup, or two
BackupDirInputs ==
    {<<>>} \cup {[n \in {1} |-> f] : f \in BackupFileInputs}
           \cup {[n \in {1, 2} |-> IF n = 1 THEN f ELSE g] :
                    f \in {File("doc", 0, <<GoodItemA>>)}, g \in BackupFileInputs}

InitLoad ==
    /\ OtpIdle
    /\ now = 3
    /\ data_file \in DataFileInputs
    /\ backups \in BackupDirInputs
    /\ saves = 0
    /\ loaded = [done |-> FALSE, raised |-> FALSE, entries |-> <<>>]
    /\ SettingsIdle
    /\ I18nIdle /\ UiIdle

\* StorageManager.load()
DoLoad ==
    LET r == Load(data_file, backups, now)
    IN  /\ loaded' = [done |-> TRUE, raised |-> r.raised, entries |-> r.entries]
        /\ UNCHANGED <<otpVars, now, data_file, backups, saves, settingsVars, i18nVars, uiVars>>

NextLoad == DoLoad

SpecLoad == InitLoad /\ [][NextLoad]_vars

-----------------------------------------------------------------------------
(* The settings manager: built over any settings file, then loaded, set    *)
(* and reset.                                                              *)

SettingsFileInputs ==
    { SettingsFile("missing", <<>>),
      SettingsFile("unparsable", <<>>),
      SettingsFile("notobject", <<>>),
      SettingsFile("object", [window |-> D([width |-> "500"])]),
      SettingsFile("object", [window |-> S("5")]),
      SettingsFile("object", [theme |-> S("light"), extra |-> D([a |-> "1"])]),
      SettingsFile("object", [security |-> S("null"), language |-> S("en_US")]) }

\* set(dot_path, value): the paths and values the callers pass
SetInputs ==
    { [path |-> <<"window", "width">>, value |-> S("500")],
      [path |-> <<"notifications", "sound">>, value |-> S("true")],
      [path |-> <<"security", "auto_lock">>, value |-> S("true")],
      [path |-> <<"language">>, value |-> S("en_US")],
      [path |-> <<"theme", "x">>, value |-> S("1")],
      [path |-> <<"window">>,
       value |-> D([width |-> "800", height |-> "600", x |-> "10", y |-> "20"])] }

\* SettingsManager.__init__: the default tree, then load()
InitSettings ==
    /\ OtpIdle
    /\ StorageIdle
    /\ I18nIdle /\ UiIdle
    /\ default_settings = CompiledDefaults
    /\ settings_file \in SettingsFileInputs
    /\ settings = LoadSettings(CompiledDefaults, settings_file)
    /\ slast = [op |-> "construct", ok |-> settings_file.kind \in {"missing", "object"}]

\* SettingsManager.load()
DoLoadSettings ==
    /\ settings' = LoadSettings(default_settings, settings_file)
    /\ slast' = [op |-> "load", ok |-> settings_file.kind \in {"missing", "object"}]
    /\ UNCHANGED <<default_settings, settings_file, otpVars, storageVars, i18nVars, uiVars>>

\* SettingsManager.set(key, value, save_immediately)
DoSet(in, save_immediately) ==
    LET r == SetPath(settings, default_settings, in.path, in.value)
    IN  /\ settings' = r.tree
        /\ default_settings' = r.defaults
        /\ settings_file' = IF r.ok /\ save_immediately
                            THEN SavedSettings(r.tree, r.defaults)
                            ELSE settings_file
        /\ slast' = [op |-> "set", ok |-> r.ok]
        /\ UNCHANGED <<otpVars, storageVars, i18nVars, uiVars>>

\* SettingsManager.reset_to_defaults()
DoResetToDefaults ==
    /\ settings' = DefaultsCopy(default_settings)
    /\ settings_file' = SavedSettings(DefaultsCopy(default_settings), default_settings)
    /\ slast' = [op |-> "reset", ok |-> TRUE]
    /\ UNCHANGED <<default_settings, otpVars, storageVars, i18nVars, uiVars>>

NextSettings ==
    \/ DoLoadSettings
    \/ \E in \in SetInputs, b \in BOOLEAN : DoSet(in, b)
    \/ DoResetToDefaults

SpecSettings == InitSettings /\ [][NextSettings]_vars

-----------------------------------------------------------------------------
(* Codes and progress read from a stored collection while the clock runs.  *)

MaxTime == 61

ValidEntryInputs == {e \in EntryInputs : ValidSecret(e.secret)}

\* the collections add_entry can have built from the entry inputs
StoredInputs ==
    {<<>>} \cup {<<e>> : e \in ValidEntryInputs}
           \cup {<<p[1], p[2]>> :
                    p \in {q \in ValidEntryInputs \X ValidEntryInputs :
                              q[1].label # q[2].label}}

InitClock ==
    /\ entries \in StoredInputs
    /\ last = NoOp
    /\ prev = NoOp
    /\ now = 0
    /\ data_file = MissingFile
    /\ backups = <<>>
    /\ saves = 0
    /\ loaded = [done |-> FALSE, raised |-> FALSE, entries |-> <<>>]
    /\ SettingsIdle
    /\ I18nIdle /\ UiIdle

\* one second passes
Tick ==
    /\ now < MaxTime
    /\ now' = now + 1
    /\ UNCHANGED <<otpVars, data_file, backups, saves, loaded, settingsVars, i18nVars, uiVars>>

\* OTPManager.generate_otp
DoGenerateOtp(l) ==
    /\ last' = Op("generate_otp", l, <<>>, <<now>>, entries, TRUE, <<>>,
                  GenerateOtp(entries, l, now))
    /\ prev' = PrevOf(last)
    /\ UNCHANGED <<entries, storageVars, settingsVars, i18nVars, uiVars>>

\* OTPManager.get_otp_with_remaining_time
DoGetOtpWithRemainingTime(l) ==
    /\ last' = Op("get_otp_with_remaining_time", l, <<>>, <<now>>, entries, TRUE, <<>>,
                  GetOtpWithRemainingTime(entries, l, now))
    /\ prev' = PrevOf(last)
    /\ UNCHANGED <<entries, storageVars, settingsVars, i18nVars, uiVars>>

\* OTPManager.get_progress
DoGetProgress(l) ==
    /\ last' = Op("get_progress", l, <<>>, <<now>>, entries, TRUE, <<>>,
                  GetProgress(entries, l, now))
    /\ prev' = PrevOf(last)
    /\ UNCHANGED <<entries, storageVars, settingsVars, i18nVars, uiVars>>

NextClock ==
    \/ Tick
    \/ \E l \in LabelInputs : DoGenerateOtp(l)
    \/ \E l \in LabelInputs : DoGetOtpWithRemainingTime(l)
    \/ \E l \in LabelInputs : DoGetProgress(l)

SpecClock == InitClock /\ [][NextClock]_vars

-----------------------------------------------------------------------------
(* The language manager: built over any locales directory, then asked to   *)
(* switch, reload and translate while observers come and go and the files   *)
(* of the directory change.                                                 *)

CodeInputs == {ZhTW, EnUS, FrFR, BadCode}

LocaleCodes == {ZhTW, EnUS}

CatalogOf(code) == IF code = ZhTW THEN CatalogZh ELSE CatalogEn

\* what the file of a language can hold; a JSON list parses but is no map
LocaleFileInputs(code) ==
    IF code = ZhTW
    THEN { NoLocaleFile, LocaleFile("json", CatalogZh) }
    ELSE { NoLocaleFile,
           LocaleFile("unparsable", JOther),
           LocaleFile("json", CatalogOf(code)),
           LocaleFile("json", JOther) }

ObserverInputs ==
    {Callback("plain", <<>>), Callback("mutator", <<>>), Callback("late", <<>>)}

\* "app.title", "app.version", "app", "app.missing", "ok", "ok.title", ""
KeyInputs ==
    { KeyApp \o <<".">> \o KeyTitle,
      KeyApp \o <<".">> \o KeyVersion,
      KeyApp,
      KeyApp \o <<".">> \o <<"m","i","s","s","i","n","g">>,
      KeyOk,
      KeyOk \o <<".">> \o KeyTitle,
      <<>> }

\* the history record of a step of the language manager
IOp(op, code, ok, round, result) ==
    [op |-> op, code |-> code, ok |-> ok,
     old_language |-> current_language,
     snapshot |-> IF op \in {"set_language", "reload_language"} THEN observers ELSE <<>>,
     calls |-> round.calls, raised |-> round.raised, result |-> result]

CurrentManager == Manager(current_language, translations, observers, allowed_languages)

SetManager(mgr) ==
    /\ current_language' = mgr.current_language
    /\ translations' = mgr.translations
    /\ observers' = mgr.observers
    /\ allowed_languages' = mgr.allowed_languages

\* LanguageManager.__init__: zh_TW, then _load_language of it
InitI18n ==
    /\ OtpIdle
    /\ StorageIdle
    /\ SettingsIdle /\ UiIdle
    /\ locales_dir \in [LocaleCodes -> UNION {LocaleFileInputs(c) : c \in LocaleCodes}]
    /\ \A c \in LocaleCodes : locales_dir[c] \in LocaleFileInputs(c)
    /\ current_language = ZhTW
    /\ observers = <<>>
    /\ LET l == LoadLanguage(<<>>, {}, locales_dir, ZhTW)
       IN  /\ translations = l.translations
           /\ allowed_languages = l.allowed
    /\ ilast = [op |-> "none"]

\* LanguageManager.set_language
DoSetLanguage(code) ==
    LET r == SetLanguage(CurrentManager, locales_dir, code)
    IN  /\ SetManager(r.mgr)
        /\ ilast' = IOp("set_language", code, r.ok, r.round, <<>>)
        /\ UNCHANGED <<locales_dir, otpVars, storageVars, settingsVars, uiVars>>

\* LanguageManager.reload_language, of a code or of the current language
DoReloadLanguage(code) ==
    LET r == ReloadLanguage(CurrentManager, locales_dir, code)
    IN  /\ SetManager(r.mgr)
        /\ ilast' = IOp("reload_language", code, r.ok, r.round, <<>>)
        /\ UNCHANGED <<locales_dir, otpVars, storageVars, settingsVars, uiVars>>

\* LanguageManager.t
DoTranslate(key) ==
    /\ ilast' = IOp("t", key, TRUE, NoRound, Translate(translations, current_language, key))
    /\ UNCHANGED <<current_language, translations, observers, allowed_languages,
                   locales_dir, otpVars, storageVars, settingsVars, uiVars>>

\* LanguageManager.add_observer
DoAddObserver(callback) ==
    /\ observers' = AddObserver(observers, callback)
    /\ ilast' = IOp("add_observer", <<>>, TRUE, NoRound, <<>>)
    /\ UNCHANGED <<current_language, translations, allowed_languages,
                   locales_dir, otpVars, storageVars, settingsVars, uiVars>>

\* LanguageManager.remove_observer
DoRemoveObserver(callback) ==
    /\ observers' = RemoveObserver(observers, callback)
    /\ ilast' = IOp("remove_observer", <<>>, TRUE, NoRound, <<>>)
    /\ UNCHANGED <<current_language, translations, allowed_languages,
                   locales_dir, otpVars, storageVars, settingsVars, uiVars>>

\* LanguageManager.get_available_languages
DoGetAvailableLanguages ==
    /\ allowed_languages' = allowed_languages \cup AvailableLanguages(allowed_languages, locales_dir)
    /\ ilast' = IOp("get_available_languages", <<>>, TRUE, NoRound, <<>>)
    /\ UNCHANGED <<current_language, translations, observers,
                   locales_dir, otpVars, storageVars, settingsVars, uiVars>>

\* a locale file is written, replaced or deleted outside the program
DoWriteLocale(code, file) ==
    /\ locales_dir' = [locales_dir EXCEPT ![code] = file]
    /\ ilast' = IOp("write_locale", code, TRUE, NoRound, <<>>)
    /\ UNCHANGED <<current_language, translations, observers, allowed_languages,
                   otpVars, storageVars, settingsVars, uiVars>>

NextI18n ==
    \/ \E code \in CodeInputs : DoSetLanguage(code)
    \/ \E code \in CodeInputs : DoReloadLanguage(code)
    \/ DoReloadLanguage(current_language)
    \/ \E key \in KeyInputs : DoTranslate(key)
    \/ \E callback \in ObserverInputs : DoAddObserver(callback)
    \/ \E callback \in ObserverInputs : DoRemoveObserver(callback)
    \/ DoGetAvailableLanguages
    \/ \E code \in LocaleCodes : \E file \in LocaleFileInputs(code) : DoWriteLocale(code, file)

SpecI18n == InitI18n /\ [][NextI18n]_vars

-----------------------------------------------------------------------------
(* Exports of a collection whose labels meet the filename sanitisation.    *)

MaxExportEntries == 3

\* two labels that agree on their first 200 characters
LongLabel(c) == [i \in 1..(SafeNameLimit + 1) |-> IF i > SafeNameLimit THEN c ELSE "a"]

ExportEntryInputs ==
    { OTPEntry(<<"A","/","B">>, SecretA, NoneV, "SHA1", 6, 30, <<>>, 0),
      OTPEntry(<<"A",":","B">>, SecretA, NoneV, "SHA1", 6, 30, <<>>, 0),
      OTPEntry(LongLabel("x"), SecretA, NoneV, "SHA1", 6, 30, <<>>, 0),
      OTPEntry(LongLabel("y"), SecretB, NoneV, "SHA1", 6, 30, <<>>, 0),
      OTPEntry(Work, SecretA, Some(Acme), "SHA1", 6, 30, <<>>, 0),
      OTPEntry(<<>>, SecretA, NoneV, "SHA1", 6, 30, <<>>, 0) }

BundleIoInputs ==
    { BundleIo(a, b, c, d, e, f) : a \in BOOLEAN, b \in BOOLEAN, c \in BOOLEAN,
                                   d \in BOOLEAN, e \in BOOLEAN, f \in BOOLEAN }

\* OTPManager.add_entry of an entry whose label is to be exported
DoAddForExport(e) ==
    /\ Len(entries) < MaxExportEntries
    /\ DoAdd(e)

\* ExportImportManager.export_to_qr_codes
DoExportToQrCodes(writable) ==
    /\ last' = Op("export_to_qr_codes", <<>>, <<>>, <<>>, entries, TRUE, <<>>,
                  ExportToQrCodes(entries, writable))
    /\ prev' = PrevOf(last)
    /\ UNCHANGED <<entries, storageVars, settingsVars, i18nVars, uiVars>>

\* ExportImportManager.create_backup
DoCreateBackup(io) ==
    /\ last' = Op("create_backup", <<>>, <<>>, io, entries, TRUE, <<>>,
                  CreateBackupBundle(entries, <<>>, now, io))
    /\ prev' = PrevOf(last)
    /\ UNCHANGED <<entries, storageVars, settingsVars, i18nVars, uiVars>>

NextExport ==
    \/ \E e \in ExportEntryInputs : DoAddForExport(e)
    \/ \E l \in LabelsOf(entries) : DoRemove(l)
    \/ \E writable \in BOOLEAN : DoExportToQrCodes(writable)
    \/ \E io \in BundleIoInputs : DoCreateBackup(io)

SpecExport == Init /\ [][NextExport]_vars

-----------------------------------------------------------------------------
(* The main window as steps: its construction, then the callbacks Tk runs   *)
(* once mainloop() is entered.  ulast records the callback: whether it      *)
(* changed the collection, the calls it made in order, whether it raised,   *)
(* and what became of its dialog ("open", "destroyed", or "none" when it    *)
(* has no dialog); consecutive ticks are told apart by their turn.          *)

MaxUiEntries == 2

UiStoreInputs ==
    { MissingFile, File("unparsable", 0, <<>>), File("doc", 0, <<>>),
      File("doc", 0, <<GoodItemA>>), File("doc", 0, <<GoodItemA, GoodItemC>>) }

UiBackupInputs == {<<>>, [n \in {1} |-> File("doc", 0, <<GoodItemA>>)]}

UiClockInputs == {0}

QueryInputs == {<<>>, <<"W","O">>}

\* what the add dialog's three fields hold, stripped
ManualInputs ==
    { [label |-> Work, secret |-> SecretA, issuer |-> <<>>],
      [label |-> Mail, secret |-> SecretA, issuer |-> Acme],
      [label |-> Mail, secret |-> BadSecret, issuer |-> <<>>],
      [label |-> <<>>, secret |-> SecretA, issuer |-> <<>>],
      [label |-> Work, secret |-> <<>>, issuer |-> <<>>] }

\* what the edit dialog's three fields hold, stripped
EditInputs ==
    { [label |-> Mail, secret |-> SecretA, issuer |-> Acme],
      [label |-> Work, secret |-> BadSecret, issuer |-> <<>>],
      [label |-> Work, secret |-> <<>>, issuer |-> <<>>],
      [label |-> <<>>, secret |-> SecretA, issuer |-> <<>>] }

JsonFileInputs ==
    { [readable |-> FALSE, items |-> <<>>],
      [readable |-> TRUE, items |-> <<>>],
      [readable |-> TRUE,
       items |-> ExportJson(<<OTPEntry(Work, SecretA, NoneV, "SHA1", 6, 30, <<>>, 0)>>)] }

\* the contents decoded from the chosen image
UploadInputs ==
    { <<[kind |-> "uri", uris |-> <<UriWork>>]>>,
      <<[kind |-> "other", uris |-> <<>>]>>,
      <<>> }

\* a directory of one or two image files, each with the contents decoded from it
QrDirInputs ==
    { << <<[kind |-> "uri", uris |-> <<UriWork>>]>> >>,
      << <<[kind |-> "other", uris |-> <<>>]>> >>,
      << <<[kind |-> "uri", uris |-> <<UriWork>>]>>,
         <<[kind |-> "uri", uris |-> <<UriWork>>]>> >> }

\* the status message t(key, ...) with its argument
Status(key, arg) == [key |-> key, arg |-> arg]

UOp(op, dialog, mutated, steps, raised) ==
    [op |-> op, dialog |-> dialog, mutated |-> mutated, steps |-> steps,
     raised |-> raised]

\* settings.get_language(), as a language code
SavedLanguage ==
    LET v == Resolve(settings, default_settings).language.v
    IN  IF v = "zh_TW" THEN ZhTW ELSE IF v = "en_US" THEN EnUS ELSE BadCode

\* window_settings['width'] and the other three subscripts raise when the
\* "window" setting is no map with these keys
WindowSettingsRaise ==
    LET w == Resolve(settings, default_settings).window
    IN  w.t # "d" \/ ~({"width", "height", "x", "y"} \subseteq DOMAIN w.d)

InitUi ==
    /\ OtpIdle
    /\ SettingsIdle
    /\ I18nIdle
    /\ UiIdle
    /\ now \in UiClockInputs
    /\ data_file \in UiStoreInputs
    /\ backups \in UiBackupInputs
    /\ backups # <<>> => data_file.kind = "unparsable"
    /\ saves = 0
    /\ loaded = [done |-> FALSE, raised |-> FALSE, entries |-> <<>>]

\* MainWindow.__init__: the language of the settings, the window, the load,
\* the widgets (the search bar registers its observer), the first refresh,
\* the first _update_otp_codes, the close handler, the language observer
DoStartup ==
    LET lang == SetLanguage(CurrentManager, locales_dir, SavedLanguage)
        l == Load(data_file, backups, now)
        obs1 == AddObserver(lang.mgr.observers, Callback("search_bar", <<>>))
        r == RefreshOtpList(l.entries, <<>>, <<>>, obs1)
        u == UpdateOtpCodes(r.cards, l.entries, now)
    IN  /\ phase = "starting"
        /\ current_language' = lang.mgr.current_language
        /\ translations' = lang.mgr.translations
        /\ allowed_languages' = lang.mgr.allowed_languages
        /\ search_query' = <<>>
        /\ status_label' = <<>>
        /\ status_timers' = 0
        /\ IF WindowSettingsRaise
           THEN /\ phase' = "failed"
                /\ observers' = lang.mgr.observers
                /\ UNCHANGED <<entries, otp_cards, empty_state, tick_scheduled,
                               close_handler>>
                /\ ulast' = UOp("startup", "none", FALSE, <<"settings">>, TRUE)
           ELSE IF l.raised
           THEN /\ phase' = "failed"
                /\ observers' = lang.mgr.observers
                /\ UNCHANGED <<entries, otp_cards, empty_state, tick_scheduled,
                               close_handler>>
                /\ ulast' = UOp("startup", "none", FALSE, <<"settings", "load">>, TRUE)
           ELSE IF r.raised
           THEN /\ phase' = "failed"
                /\ entries' = l.entries
                /\ otp_cards' = r.cards
                /\ observers' = r.observers
                /\ empty_state' = RefreshEmptyState(NoOtpState, l.entries, <<>>)
                /\ UNCHANGED <<tick_scheduled, close_handler>>
                /\ ulast' = UOp("startup", "none", FALSE,
                                <<"settings", "load", "widgets", "refresh">>, TRUE)
           ELSE /\ phase' = "ready"
                /\ entries' = l.entries
                /\ otp_cards' = u.cards
                /\ empty_state' = RefreshEmptyState(NoOtpState, l.entries, <<>>)
                /\ tick_scheduled' = u.scheduled
                /\ close_handler' = TRUE
                /\ observers' = AddObserver(r.observers, Callback("main_window", <<>>))
                /\ ulast' = UOp("startup", "none", FALSE,
                                <<"settings", "load", "widgets", "refresh", "tick",
                                  "close_handler", "observer">>, FALSE)
        /\ UNCHANGED <<last, prev, now, data_file, backups, saves, loaded,
                       settingsVars, locales_dir, ilast>>

\* the timers a window holds at a time
MaxTimers == 2

\* what every callback does once the collection has become es:
\* _save_data(), _refresh_otp_list(), _show_status(message), which sets the
\* text and a timer that clears it; an add or edit dialog, still open then,
\* is destroyed last
SaveRefreshStatus(op, dialog, es, message) ==
    LET s == Save(es, data_file, backups, now)
        r == RefreshOtpList(es, search_query, otp_cards, observers)
    IN  /\ r.raised \/ status_timers < MaxTimers
        /\ entries' = es
        /\ data_file' = s.file
        /\ backups' = s.dir
        /\ otp_cards' = r.cards
        /\ observers' = r.observers
        /\ empty_state' = RefreshEmptyState(empty_state, es, search_query)
        /\ status_label' = IF r.raised THEN status_label ELSE message
        /\ status_timers' = IF r.raised THEN status_timers ELSE status_timers + 1
        /\ ulast' = UOp(op,
                        IF ~r.raised /\ dialog = "open" THEN "destroyed" ELSE dialog,
                        TRUE,
                        IF r.raised THEN <<"mutate", "save", "refresh">>
                        ELSE <<"mutate", "save", "refresh", "status">>,
                        r.raised)

\* a callback that ends in a message box: no save, no refresh, no status;
\* es is the collection as the manager's call left it
NoMutation(op, dialog, es) ==
    /\ entries' = es
    /\ ulast' = UOp(op, dialog, FALSE, <<>>, FALSE)
    /\ UNCHANGED <<data_file, backups, otp_cards, observers, status_label,
                   status_timers, empty_state>>

UiFrame ==
    UNCHANGED <<last, prev, now, saves, loaded, settingsVars, current_language,
                translations, allowed_languages, locales_dir, ilast, phase,
                search_query, tick_scheduled, close_handler>>

\* MainWindow._manual_input.on_confirm
DoManualInput(in) ==
    LET issuer == IF in.issuer = <<>> THEN NoneV ELSE Some(in.issuer)
        entry == OTPEntry(in.label, in.secret, issuer, "SHA1", 6, 30, <<>>, now)
        r == AddEntry(entries, entry)
    IN  /\ phase = "ready"
        /\ Len(r.entries) <= MaxUiEntries
        /\ IF in.label = <<>> \/ in.secret = <<>>
           THEN NoMutation("manual_input", "open", entries)
           ELSE IF r.ok
           THEN SaveRefreshStatus("manual_input", "open", r.entries,
                                  Status("status.added", in.label))
           ELSE NoMutation("manual_input", "open", r.entries)
        /\ UiFrame

\* MainWindow._edit_otp(label) and its on_confirm
DoEditOtp(label, in) ==
    LET issuer == IF in.issuer = <<>> THEN NoneV ELSE Some(in.issuer)
        entry == GetEntry(entries, label)
        new_entry == OTPEntry(in.label, in.secret, issuer, entry.algorithm,
                              entry.digits, entry.period, entry.tags,
                              entry.created_at)
        r == UpdateEntry(entries, label, new_entry)
    IN  /\ phase = "ready"
        /\ IF ~HasLabel(entries, label)
           THEN NoMutation("edit_otp", "none", entries)
           ELSE IF in.label = <<>> \/ in.secret = <<>>
           THEN NoMutation("edit_otp", "open", entries)
           ELSE IF r.ok
           THEN SaveRefreshStatus("edit_otp", "open", r.entries,
                                  Status("status.updated", in.label))
           ELSE NoMutation("edit_otp", "open", r.entries)
        /\ UiFrame

\* MainWindow._delete_otp(label)
DoDeleteOtp(label) ==
    LET r == RemoveEntry(entries, label)
    IN  /\ phase = "ready"
        /\ IF r.ok
           THEN SaveRefreshStatus("delete_otp", "none", r.entries,
                                  Status("status.deleted", label))
           ELSE NoMutation("delete_otp", "none", r.entries)
        /\ UiFrame

\* MainWindow._upload_qr_code, a file chosen
DoUploadQrCode(contents) ==
    LET r == ImportFromQrImage(entries, contents, now)
    IN  /\ phase = "ready"
        /\ Len(r.entries) <= MaxUiEntries
        /\ IF r.imported # <<>>
           THEN SaveRefreshStatus("upload_qr_code", "none", r.entries,
                                  Status("status.imported", Len(r.imported)))
           ELSE NoMutation("upload_qr_code", "none", r.entries)
        /\ UiFrame

\* the loop of import_json over the entries of the imported manager
RECURSIVE MergeEntries(_, _, _)
MergeEntries(es, new, count) ==
    IF new = <<>> THEN [entries |-> es, count |-> count]
    ELSE LET r == AddEntry(es, Head(new))
         IN  MergeEntries(r.entries, Tail(new), IF r.ok THEN count + 1 ELSE count)

\* MainWindow._batch_import.import_json, a file chosen
DoImportJson(file) ==
    LET r == MergeEntries(entries, ImportJson(file.items, now), 0)
    IN  /\ phase = "ready"
        /\ Len(r.entries) <= MaxUiEntries
        /\ IF file.readable /\ r.count > 0
           THEN SaveRefreshStatus("import_json", "destroyed", r.entries,
                                  Status("status.imported", r.count))
           ELSE NoMutation("import_json", "destroyed", IF file.readable THEN r.entries ELSE entries)
        /\ UiFrame

\* ExportImportManager.import_from_qr_directory: the files that gave entries
RECURSIVE ImportFromQrDirectory(_, _, _, _)
ImportFromQrDirectory(es, images, results, t) ==
    IF images = <<>> THEN [entries |-> es, results |-> results]
    ELSE LET r == ImportFromQrImage(es, Head(images), t)
         IN  ImportFromQrDirectory(r.entries, Tail(images),
                 IF r.imported # <<>> THEN Append(results, r.imported) ELSE results,
                 t)

RECURSIVE SumLen(_)
SumLen(seqs) == IF seqs = <<>> THEN 0 ELSE Len(Head(seqs)) + SumLen(Tail(seqs))

\* MainWindow._batch_import.import_qr_dir, a directory chosen
DoImportQrDir(images) ==
    LET r == ImportFromQrDirectory(entries, images, <<>>, now)
    IN  /\ phase = "ready"
        /\ Len(r.entries) <= MaxUiEntries
        /\ IF r.results # <<>>
           THEN SaveRefreshStatus("import_qr_dir", "destroyed", r.entries,
                                  Status("status.import_from_dir",
                                         <<Len(r.results), SumLen(r.results)>>))
           ELSE NoMutation("import_qr_dir", "destroyed", r.entries)
        /\ UiFrame

\* MainWindow._on_search(query)
DoSearch(query) ==
    LET r == RefreshOtpList(entries, query, otp_cards, observers)
    IN  /\ phase = "ready"
        /\ search_query' = query
        /\ otp_cards' = r.cards
        /\ observers' = r.observers
        /\ empty_state' = RefreshEmptyState(empty_state, entries, query)
        /\ ulast' = UOp("search", "none", FALSE, <<"refresh">>, r.raised)
        /\ UNCHANGED <<entries, last, prev, storageVars, settingsVars,
                       current_language, translations, allowed_languages,
                       locales_dir, ilast, phase, status_label, status_timers,
                       tick_scheduled, close_handler>>

\* MainWindow._update_otp_codes, run by the timer of the previous call
DoUpdateOtpCodes ==
    LET u == UpdateOtpCodes(otp_cards, entries, now)
    IN  /\ phase = "ready"
        /\ tick_scheduled
        /\ otp_cards' = u.cards
        /\ tick_scheduled' = u.scheduled
        /\ ulast' = [op |-> "tick", dialog |-> "none", mutated |-> FALSE,
                      steps |-> <<"tick">>, raised |-> FALSE,
                      turn |-> IF ulast.op = "tick" THEN 1 - ulast.turn ELSE 0]
        /\ UNCHANGED <<otpVars, storageVars, settingsVars, i18nVars, phase,
                       search_query, status_label, status_timers, empty_state,
                       close_handler>>

\* the callback _show_status left with after(duration, ...): every caller
\* leaves duration at its default, so the timers run out in the order they
\* were set
DoClearStatus ==
    /\ phase = "ready"
    /\ status_timers > 0
    /\ status_label' = <<>>
    /\ status_timers' = status_timers - 1
    /\ UNCHANGED <<otpVars, storageVars, settingsVars, i18nVars, phase,
                   otp_cards, search_query, empty_state, tick_scheduled,
                   close_handler, ulast>>

NextUi ==
    \/ DoStartup
    \/ \E in \in ManualInputs : DoManualInput(in)
    \/ \E l \in {Work, Mail}, in \in EditInputs : DoEditOtp(l, in)
    \/ \E l \in {Work, Mail} : DoDeleteOtp(l)
    \/ \E c \in UploadInputs : DoUploadQrCode(c)
    \/ \E f \in JsonFileInputs : DoImportJson(f)
    \/ \E d \in QrDirInputs : DoImportQrDir(d)
    \/ \E q \in QueryInputs : DoSearch(q)
    \/ DoUpdateOtpCodes
    \/ DoClearStatus

SpecUi == InitUi /\ [][NextUi]_vars

\* the window with its add and edit dialogs
NextDialogs ==
    \/ DoStartup
    \/ \E in \in ManualInputs : DoManualInput(in)
    \/ \E l \in {Work, Mail}, in \in EditInputs : DoEditOtp(l, in)
    \/ \E l \in {Work, Mail} : DoDeleteOtp(l)
    \/ DoClearStatus

SpecDialogs == InitUi /\ [][NextDialogs]_vars

-----------------------------------------------------------------------------
(* The store over time: the collection changes, save() is called, and file  *)
(* operations of save() may fail.  last records the step; a save records    *)
(* the data file and the backups it found.                                  *)

MaxStoreTime == 1

StoreEntryInputs ==
    { OTPEntry(Work, SecretA, NoneV, "SHA1", 6, 30, <<>>, 0),
      OTPEntry(Mail, SecretB, Some(Acme), "SHA256", 8, 60, <<Work>>, 1) }

SaveIoInputs ==
    { SaveIo(TRUE, "ok"), SaveIo(FALSE, "ok"),
      SaveIo(TRUE, "open_fails"), SaveIo(TRUE, "dump_fails") }

\* StorageManager.save(otp_manager), called dt seconds after the step before
DoStoreSave(dt, io) ==
    LET r == SaveWith(entries, data_file, backups, now + dt, io)
    IN  /\ now + dt <= MaxStoreTime
        /\ now' = now + dt
        /\ data_file' = r.file
        /\ backups' = r.dir
        /\ last' = Op("save", <<>>, <<>>, <<data_file, backups, io>>, entries,
                      r.ok, <<>>, <<>>)
        /\ prev' = PrevOf(last)
        /\ UNCHANGED <<entries, saves, loaded, settingsVars, i18nVars, uiVars>>

NextStore ==
    \/ \E e \in StoreEntryInputs : DoAdd(e)
    \/ \E l \in {Work} : DoRemove(l)
    \/ \E dt \in DelayInputs, io \in SaveIoInputs : DoStoreSave(dt, io)

SpecStore == Init /\ [][NextStore]_vars

-----------------------------------------------------------------------------
(* Save and load over the collections that add, update and remove produce.  *)
(* A load records in last the step that came right before it.               *)

RoundTripUpdateInputs ==
    { OTPEntry(Bank, SecretB, Some(<<>>), "SHA512", 6, 30, <<Mail>>, 0) }

\* StorageManager.load()
DoStoreLoad ==
    LET r == Load(data_file, backups, now)
    IN  /\ loaded' = [done |-> TRUE, raised |-> r.raised, entries |-> r.entries]
        /\ last' = Op("load", <<>>, <<>>, <<last.op, last.ok>>, entries,
                      ~r.raised, <<>>, <<>>)
        /\ prev' = PrevOf(last)
        /\ UNCHANGED <<entries, now, data_file, backups, saves, settingsVars,
                       i18nVars, uiVars>>

NextRoundTrip ==
    \/ \E e \in StoreEntryInputs : DoAdd(e)
    \/ \E l \in {Work} : DoRemove(l)
    \/ \E l \in {Work}, e \in RoundTripUpdateInputs : DoUpdate(l, e)
    \/ \E io \in {SaveIo(TRUE, "ok"), SaveIo(TRUE, "open_fails")} : DoStoreSave(0, io)
    \/ DoStoreLoad

SpecRoundTrip == Init /\ [][NextRoundTrip]_vars

-----------------------------------------------------------------------------
(* The window with its language menu and its close button:                  *)
(* src/ui/main_window.py.                                                    *)

\* the text settings hold for a language code
CodeText(code) ==
    IF code = ZhTW THEN "zh_TW" ELSE IF code = EnUS THEN "en_US" ELSE "other"

\* SettingsManager.set(key, value) with its save: the write of the settings
\* file may fail, which save() catches
SetAndSave(s, path, value, write_ok) ==
    LET r == SetPath(s.tree, s.defaults, path, value)
    IN  [tree |-> r.tree, defaults |-> r.defaults,
         file |-> IF r.ok /\ write_ok THEN SavedSettings(r.tree, r.defaults)
                  ELSE s.file]

\* MainWindow._save_settings: the geometry, unless a winfo_ call raises,
\* then the language
SaveSettings(s, geometry, code, write_ok) ==
    LET w == IF geometry.some
             THEN SetAndSave(s, <<"window">>, D(geometry.d), write_ok)
             ELSE s
    IN  SetAndSave(w, <<"language">>, S(CodeText(code)), write_ok)

\* destroy() of the window without the call of remove_language_observer
CloseObserversKeepsWindow(obs, cards) ==
    RemoveObserver(DestroyCards(cards, obs), Callback("search_bar", <<>>))

\* remove_language_observer(self._on_language_changed), then destroy(),
\* which destroys the cards and the search bar with their observers
CloseObservers(obs, cards) ==
    RemoveObserver(
        DestroyCards(cards, RemoveObserver(obs, Callback("main_window", <<>>))),
        Callback("search_bar", <<>>))

NoGeometry == [some |-> FALSE, d |-> <<>>]
SomeGeometry(d) == [some |-> TRUE, d |-> d]

\* what a close meets: the geometry winfo_ returns, whether the settings
\* file can be written, what the save of the data file meets
CloseInputs ==
    { [geometry |-> SomeGeometry([width |-> "800", height |-> "600", x |-> "10", y |-> "20"]),
       settings_ok |-> TRUE, save |-> SaveIo(TRUE, "ok")],
      [geometry |-> NoGeometry, settings_ok |-> TRUE, save |-> SaveIo(FALSE, "ok")],
      [geometry |-> SomeGeometry([width |-> "800", height |-> "600", x |-> "10", y |-> "20"]),
       settings_ok |-> FALSE, save |-> SaveIo(TRUE, "ok")],
      [geometry |-> SomeGeometry([width |-> "800", height |-> "600", x |-> "10", y |-> "20"]),
       settings_ok |-> TRUE, save |-> SaveIo(TRUE, "open_fails")] }

\* MainWindow._on_closing, bound to WM_DELETE_WINDOW; with the window the
\* timers it holds are gone
DoOnClosing(in) ==
    LET s == SaveSettings([tree |-> settings, defaults |-> default_settings,
                           file |-> settings_file],
                          in.geometry, current_language, in.settings_ok)
        d == SaveWith(entries, data_file, backups, now, in.save)
    IN  /\ phase = "ready"
        /\ close_handler
        /\ settings' = s.tree
        /\ default_settings' = s.defaults
        /\ settings_file' = s.file
        /\ data_file' = d.file
        /\ backups' = d.dir
        /\ observers' = CloseObservers(observers, otp_cards)
        /\ phase' = "closed"
        /\ tick_scheduled' = FALSE
        /\ status_timers' = 0
        /\ ulast' = [op |-> "closing", dialog |-> "none", mutated |-> FALSE,
                      steps |-> <<"settings", "save", "observer", "destroy">>,
                      raised |-> FALSE, in |-> in, data_ok |-> d.ok,
                      before |-> <<data_file, backups>>]
        /\ UNCHANGED <<otpVars, now, saves, loaded, slast, current_language,
                       translations, allowed_languages, locales_dir, ilast,
                       otp_cards, search_query, status_label, empty_state,
                       close_handler>>

\* MainWindow._show_language_menu and the _change_language(code) of the
\* item chosen: the menu lists get_available_languages(), which adds the
\* codes to the allow-list.  The observer of the window raises TypeError in
\* _update_ui_texts, at empty_state.update_content(..., action_text=...),
\* before it has changed the empty state, the count, the list or the status
\* bar; _notify_observers catches it.
DoChangeLanguage(code) ==
    LET available == AvailableLanguages(allowed_languages, locales_dir)
        mgr == Manager(current_language, translations, observers,
                       allowed_languages \cup available)
        r == SetLanguage(mgr, locales_dir, code)
        s == SetAndSave([tree |-> settings, defaults |-> default_settings,
                         file |-> settings_file],
                        <<"language">>, S(CodeText(code)), TRUE)
    IN  /\ phase = "ready"
        /\ code \in available
        /\ current_language' = r.mgr.current_language
        /\ translations' = r.mgr.translations
        /\ observers' = r.mgr.observers
        /\ allowed_languages' = r.mgr.allowed_languages
        /\ IF r.ok
           THEN /\ settings' = s.tree
                /\ default_settings' = s.defaults
                /\ settings_file' = s.file
           ELSE UNCHANGED <<settings, default_settings, settings_file>>
        /\ ulast' = UOp("change_language", "none", FALSE,
                        IF r.ok THEN <<"set_language", "notify", "settings">>
                        ELSE <<"set_language">>,
                        r.ok /\ \E i \in 1..Len(observers) :
                                    observers[i] = Callback("main_window", <<>>))
        /\ UNCHANGED <<otpVars, storageVars, slast, locales_dir, ilast, phase,
                       otp_cards, search_query, status_label, status_timers,
                       empty_state, tick_scheduled, close_handler>>

NextWindow ==
    \/ DoStartup
    \/ \E in \in ManualInputs : DoManualInput(in)
    \/ \E l \in {Work, Mail} : DoDeleteOtp(l)
    \/ \E q \in QueryInputs : DoSearch(q)
    \/ \E code \in LocaleCodes : DoChangeLanguage(code)
    \/ \E in \in CloseInputs : DoOnClosing(in)
    \/ DoUpdateOtpCodes
    \/ DoClearStatus

SpecWindow == InitUi /\ [][NextWindow]_vars

\* Tk runs a callback scheduled with after() once its delay has passed
SpecUiLive == InitUi /\ [][NextWindow]_vars /\ WF_vars(DoUpdateOtpCodes)

-----------------------------------------------------------------------------
(* The four import flows on one collection: src/utils/export_import.py and  *)
(* the merge of import_json in src/ui/main_window.py.  last records the     *)
(* collection before the import and what the flow reports.                  *)

MaxImportEntries == 3

\* the entries StorageManager.import_json returns for the chosen file
ImportedManagerInputs ==
    { ImportJson(ExportJson(<<OTPEntry(Work, SecretB, NoneV, "SHA1", 6, 30, <<Mail>>, 0)>>), 0),
      ImportJson(ExportJson(<<OTPEntry(Mail, SecretA, NoneV, "SHA1", 6, 30, <<>>, 0),
                              OTPEntry(Work, SecretA, NoneV, "SHA1", 6, 30, <<>>, 0)>>), 0) }

RECURSIVE Flatten(_)
Flatten(seqs) == IF seqs = <<>> THEN <<>> ELSE Head(seqs) \o Flatten(Tail(seqs))

\* ExportImportManager.import_from_qr_image
DoFlowQrImage(contents) ==
    LET r == ImportFromQrImage(entries, contents, now)
    IN  /\ Len(r.entries) <= MaxImportEntries
        /\ entries' = r.entries
        /\ last' = Op("import_qr", <<>>, <<>>, <<>>, entries, TRUE, r.imported, 0)
        /\ prev' = NoOp
        /\ UNCHANGED <<storageVars, settingsVars, i18nVars, uiVars>>

\* ExportImportManager.import_from_google_auth_format
DoFlowGoogle(lines) ==
    LET r == ImportFromGoogleAuthFormat(entries, lines, now)
    IN  /\ Len(r.entries) <= MaxImportEntries
        /\ entries' = r.entries
        /\ last' = Op("import_google", <<>>, <<>>, <<>>, entries, TRUE, r.imported, 0)
        /\ prev' = NoOp
        /\ UNCHANGED <<storageVars, settingsVars, i18nVars, uiVars>>

\* ExportImportManager.import_from_qr_directory
DoFlowQrDirectory(images) ==
    LET r == ImportFromQrDirectory(entries, images, <<>>, now)
    IN  /\ Len(r.entries) <= MaxImportEntries
        /\ entries' = r.entries
        /\ last' = Op("import_qr_dir", <<>>, <<>>, <<>>, entries, TRUE,
                      Flatten(r.results), 0)
        /\ prev' = NoOp
        /\ UNCHANGED <<storageVars, settingsVars, i18nVars, uiVars>>

\* the merge of import_json: add_entry for each entry of the imported
\* manager, counting the True results
DoFlowJson(imported) ==
    LET r == MergeEntries(entries, imported, 0)
    IN  /\ Len(r.entries) <= MaxImportEntries
        /\ entries' = r.entries
        /\ last' = Op("import_json", <<>>, <<>>, imported, entries, TRUE, <<>>, r.count)
        /\ prev' = NoOp
        /\ UNCHANGED <<storageVars, settingsVars, i18nVars, uiVars>>

\* OTPManager.remove_entry between imports
DoFlowRemove(l) ==
    /\ entries' = RemoveEntry(entries, l).entries
    /\ last' = NoOp
    /\ prev' = NoOp
    /\ UNCHANGED <<storageVars, settingsVars, i18nVars, uiVars>>

NextImportFlows ==
    \/ \E cs \in ContentSeqs : DoFlowQrImage(cs)
    \/ \E ls \in ContentSeqs : DoFlowGoogle(ls)
    \/ \E d \in QrDirInputs : DoFlowQrDirectory(d)
    \/ \E m \in ImportedManagerInputs : DoFlowJson(m)
    \/ \E l \in LabelsOf(entries) : DoFlowRemove(l)

SpecImportFlows == Init /\ [][NextImportFlows]_vars

-----------------------------------------------------------------------------
(* The language manager called with arbitrary strings, over a locales       *)
(* directory whose files come and go: src/utils/i18n.py.                    *)

\* "en_US" followed by a newline, a path, and a name that is no code
EnUSNewline == EnUS \o <<"\n">>
PathCode == <<".", ".", "/", "z", "h">>

ArbitraryCodeInputs == {ZhTW, EnUS, EnUSNewline, PathCode, BadCode, <<>>}

\* the names (without ".json") the files of the directory can have
LocaleNameInputs == {ZhTW, EnUSNewline, BadCode}

InitI18nCodes ==
    /\ OtpIdle
    /\ StorageIdle
    /\ SettingsIdle /\ UiIdle
    /\ locales_dir \in [LocaleNameInputs -> {NoLocaleFile, LocaleFile("json", CatalogEn)}]
    /\ current_language = ZhTW
    /\ observers = <<>>
    /\ LET l == LoadLanguage(<<>>, {}, locales_dir, ZhTW)
       IN  /\ translations = l.translations
           /\ allowed_languages = l.allowed
    /\ ilast = [op |-> "none"]

NextI18nCodes ==
    \/ \E code \in ArbitraryCodeInputs : DoSetLanguage(code)
    \/ \E code \in ArbitraryCodeInputs : DoReloadLanguage(code)
    \/ DoGetAvailableLanguages
    \/ \E name \in LocaleNameInputs :
          \E file \in {NoLocaleFile, LocaleFile("json", CatalogEn)} :
              DoWriteLocale(name, file)

SpecI18nCodes == InitI18nCodes /\ [][NextI18nCodes]_vars

-----------------------------------------------------------------------------
(* C1: add(entry) with a label that is already present returns failure and *)
(* leaves the collection unchanged (same labels, same size, the old entry   *)
(* still stored); no two entries of the collection share a label.           *)
C1_AddDuplicateFails ==
    /\ IsCollection(entries)
    /\ (last.op = "add" /\ HasLabel(last.before, last.label))
         => /\ ~last.ok
            /\ entries = last.before
            /\ LabelsOf(entries) = LabelsOf(last.before)
            /\ Len(entries) = Len(last.before)
            /\ GetEntry(entries, last.label) = GetEntry(last.before, last.label)

\* an add of a different entry under a label that is present
C1_Witness ==
    /\ last.op = "add"
    /\ HasLabel(last.before, last.label)
    /\ GetEntry(last.before, last.label) # last.arg[1]
    /\ ValidSecret(last.arg[1].secret)

(* C2: update(old_label, new_entry) fails and leaves the collection         *)
(* unchanged when old_label is absent, when the new label differs from      *)
(* old_label and is present, or when the new secret is unusable; when it    *)
(* succeeds old_label is gone unless it is the new label, new_entry is       *)
(* stored under its label, every other entry is untouched and the size is   *)
(* unchanged.                                                               *)
C2_Update ==
    last.op = "update" =>
        LET b == last.before
            old == last.label
            e == last.arg[1]
        IN  /\ ( \/ ~HasLabel(b, old)
                 \/ (e.label # old /\ HasLabel(b, e.label))
                 \/ ~ValidSecret(e.secret) )
                  => (~last.ok /\ entries = b)
            /\ last.ok =>
                  /\ (old # e.label => ~HasLabel(entries, old))
                  /\ HasLabel(entries, e.label)
                  /\ GetEntry(entries, e.label) = e
                  /\ \A l \in (LabelsOf(b) \cup LabelsOf(entries)) \ {old, e.label} :
                        /\ HasLabel(b, l) /\ HasLabel(entries, l)
                        /\ GetEntry(entries, l) = GetEntry(b, l)
                  /\ Len(entries) = Len(b)
                  /\ IsCollection(entries)

\* a successful update that renames an entry while another entry is stored
C2_Witness ==
    /\ last.op = "update"
    /\ last.ok
    /\ last.label # last.arg[1].label
    /\ Len(entries) >= 2

(* C3: add of a valid entry whose label is absent succeeds and grows list() *)
(* by exactly that entry; a following remove(label) succeeds and restores    *)
(* the collection to exactly its state before the add; remove of an absent  *)
(* label returns failure and changes nothing.                               *)
C3_AddRemove ==
    /\ (last.op = "add" /\ ~HasLabel(last.before, last.label)
           /\ ValidSecret(last.arg[1].secret))
         => /\ last.ok
            /\ Len(entries) = Len(last.before) + 1
            /\ \A i \in 1..Len(last.before) : entries[i] = last.before[i]
            /\ entries[Len(entries)] = last.arg[1]
    /\ (last.op = "remove" /\ prev.op = "add" /\ prev.ok /\ last.label = prev.label)
         => (last.ok /\ entries = prev.before)
    /\ (last.op = "remove" /\ ~HasLabel(last.before, last.label))
         => (~last.ok /\ entries = last.before)

\* an add into a non-empty collection, undone by the remove that follows it
C3_Witness ==
    /\ last.op = "remove" /\ last.ok
    /\ prev.op = "add" /\ prev.ok /\ prev.label = last.label
    /\ prev.before # <<>>
    /\ entries = prev.before

(* C10: for every non-empty collection, export_json followed by import_json *)
(* of the written file yields one entry per original entry, each with the   *)
(* same label, issuer, algorithm, digits and period as the original.        *)
SameIdentity(a, b) ==
    /\ a.label = b.label
    /\ a.issuer = b.issuer
    /\ a.algorithm = b.algorithm
    /\ a.digits = b.digits
    /\ a.period = b.period

C10_RoundTrip ==
    (last.op = "roundtrip" /\ last.before # <<>>) =>
        /\ Len(last.result) = Len(last.before)
        /\ \A i \in 1..Len(last.before) :
              \E j \in 1..Len(last.result) : SameIdentity(last.before[i], last.result[j])

IsImport(l) == l.op \in {"import_qr", "import_google"}

\* the URIs an import step went through, in order
RECURSIVE FlatUris(_)
FlatUris(contents) ==
    IF contents = <<>> THEN <<>>
    ELSE UrisOfContent(Head(contents)) \o FlatUris(Tail(contents))
StepUris(l) ==
    IF l.op = "import_qr" THEN FlatUris(l.payload) ELSE LineUris(l.payload)

\* the URIs of a step that give an entry with a usable secret
Importable(u) ==
    IsValidOtpUri(u) /\ ParseUri(u, 0).some /\ ValidSecret(ParseUri(u, 0).v.secret)
ImportableUris(l) == SelectSeq(StepUris(l), Importable)

(* C4, as amended: when import_from_qr_image or                             *)
(* import_from_google_auth_format processes provisioning URIs, every URI    *)
(* that parses and has a usable secret is inserted, in arrival order: under *)
(* its parsed label L when L is not in the collection, and otherwise under  *)
(* "L (k)", k the smallest integer >= 1 such that "L (k)" is not in the     *)
(* collection; a URI with an unusable secret is not inserted.  Two payloads *)
(* resolving to "Work" imported into a collection holding neither "Work"    *)
(* nor "Work (1)" give "Work" and "Work (1)" in arrival order, and a third  *)
(* gives "Work (2)".                                                        *)
C4_CollisionResolution ==
    IsImport(last) =>
        LET b == last.before
            us == ImportableUris(last)
            n == Len(last.labels)
            present(i) == LabelsOf(b) \cup {last.labels[j] : j \in 1..(i - 1)}
        IN  /\ n = Len(us)
            /\ Len(entries) = Len(b) + n
            /\ SubSeq(entries, 1, Len(b)) = b
            /\ \A i \in 1..n :
                  LET L == ParseUri(us[i], 0).v.label
                      got == entries[Len(b) + i]
                  IN  /\ got.label = last.labels[i]
                      /\ got.secret = us[i].secret.v
                      /\ L \notin present(i) => got.label = L
                      /\ L \in present(i) =>
                            \E k \in 1..(Len(entries) + 1) :
                               /\ got.label = Suffixed(L, k)
                               /\ Suffixed(L, k) \notin present(i)
                               /\ \A j \in 1..(k - 1) : Suffixed(L, j) \in present(i)
            /\ (n = 2 /\ ~HasLabel(b, Work) /\ ~HasLabel(b, Suffixed(Work, 1))
                  /\ \A i \in 1..2 : ParseUri(us[i], 0).v.label = Work)
                 => last.labels = <<Work, <<"W","o","r","k"," ","(","1",")">> >>
            /\ (n = 1 /\ ParseUri(us[1], 0).v.label = Work
                  /\ HasLabel(b, Work) /\ HasLabel(b, Suffixed(Work, 1))
                  /\ ~HasLabel(b, Suffixed(Work, 2)))
                 => last.labels = << <<"W","o","r","k"," ","(","2",")">> >>

\* a third "Work" arrives where "Work" and "Work (1)" are present
C4_Witness ==
    /\ IsImport(last)
    /\ HasLabel(last.before, Work)
    /\ HasLabel(last.before, Suffixed(Work, 1))
    /\ last.labels = <<Suffixed(Work, 2)>>
    /\ entries[Len(entries)].label = <<"W","o","r","k"," ","(","2",")">>

\* two payloads resolving to "Work" arrive in one import
C4_WitnessPair ==
    /\ IsImport(last)
    /\ ~HasLabel(last.before, Work)
    /\ last.labels = <<Work, Suffixed(Work, 1)>>

(* C4: when import_from_qr_image or import_from_google_auth_format          *)
(* processes provisioning URIs, a URI whose parsed label L is already in    *)
(* the collection is inserted under "L (k)", k the smallest integer >= 1    *)
(* such that "L (k)" is not in the collection; two payloads resolving to    *)
(* "Work" imported into a collection without "Work" give "Work" and         *)
(* "Work (1)" in arrival order, and a third gives "Work (2)".               *)
ParsedUris(l) ==
    SelectSeq(StepUris(l), LAMBDA u : IsValidOtpUri(u) /\ ParseUri(u, 0).some)

C4_Original ==
    IsImport(last) =>
        LET b == last.before
            us == ParsedUris(last)
        IN  /\ (Len(us) = 1 /\ HasLabel(b, ParseUri(us[1], 0).v.label)) =>
                  LET L == ParseUri(us[1], 0).v.label
                  IN  \E k \in 1..(Len(b) + 1) :
                         /\ ~HasLabel(b, Suffixed(L, k))
                         /\ \A j \in 1..(k - 1) : HasLabel(b, Suffixed(L, j))
                         /\ HasLabel(entries, Suffixed(L, k))
                         /\ GetEntry(entries, Suffixed(L, k)).secret = us[1].secret.v
            /\ (Len(us) = 2 /\ ~HasLabel(b, Work)
                  /\ \A i \in 1..2 : ParseUri(us[i], 0).v.label = Work)
                 => /\ Len(entries) = Len(b) + 2
                    /\ entries[Len(b) + 1].label = Work
                    /\ entries[Len(b) + 2].label = Suffixed(Work, 1)

(* C5: after n successful save() calls made while the data file already    *)
(* exists, the backups directory holds exactly min(n, 10) backup files      *)
(* (12 sequential saves leave exactly 10), and never more than 10.          *)
Min(a, b) == IF a < b THEN a ELSE b

C5_BackupCount ==
    /\ Cardinality(DOMAIN backups) = Min(saves, KeepCount)
    /\ Cardinality(DOMAIN backups) <= KeepCount

(* C6: StorageManager.load() never raises and always returns a usable       *)
(* collection (distinct labels, every stored secret usable), for every      *)
(* state of the data file and of the backups directory.                     *)
C6_LoadNeverRaises ==
    loaded.done =>
        /\ ~loaded.raised
        /\ IsCollection(loaded.entries)
        /\ \A i \in 1..Len(loaded.entries) : ValidSecret(loaded.entries[i].secret)

\* a load of an unparsable data file whose newest backup is unparsable too
C6_Witness ==
    /\ loaded.done
    /\ data_file.kind = "unparsable"
    /\ DOMAIN backups = {1, 2}
    /\ backups[2].kind = "unparsable"
    /\ loaded.entries = <<>>

\* a load of a data file with a malformed entry, restored from a backup
C6_WitnessRestored ==
    /\ loaded.done
    /\ data_file.kind = "doc"
    /\ \E i \in 1..Len(data_file.items) : ~data_file.items[i].dict
    /\ loaded.entries # <<>>

(* C7: when loading the data file fails (at the JSON parse or at any        *)
(* entry), load() returns exactly the entries of the most recent backup     *)
(* parsed with the same rules, and nothing taken from the failed data       *)
(* file; with no backup, or when the backup fails too, it returns an empty  *)
(* collection.                                                              *)
NewestBackup == backups[CHOOSE n \in DOMAIN backups : \A o \in DOMAIN backups : o <= n]

C7_RestoreExactlyBackup ==
    (loaded.done /\ data_file.kind # "missing" /\ ReadInto(<<>>, data_file, now).raised)
        => IF DOMAIN backups # {} /\ ~ReadInto(<<>>, NewestBackup, now).raised
           THEN loaded.entries = ReadInto(<<>>, NewestBackup, now).entries
           ELSE loaded.entries = <<>>

(* C8: for every settings file content, after load() every key of the      *)
(* default tree is present in the settings tree at every nesting level: a   *)
(* key given by the file has the file's value, a key not given by the file  *)
(* has its compiled-in default.                                             *)
Loaded == slast.op \in {"construct", "load"}
FileTree == IF settings_file.kind = "object" THEN settings_file.tree ELSE <<>>
Current == Resolve(settings, default_settings)

C9_ResetRestoresDefaults ==
    slast.op = "reset" => Current = CompiledDefaults

(* C11: generate_otp(label) and get_otp_with_remaining_time(label) compute *)
(* the code with the entry's own algorithm: the digest of the HMAC is the   *)
(* entry's algorithm field, next to its secret, digits, period and the      *)
(* time step.                                                               *)
\* the clock a code or progress step read
ReadAt == last.payload[1]

IsCodeStep == last.op \in {"generate_otp", "get_otp_with_remaining_time"}

C11_CodeUsesEntryAlgorithm ==
    (IsCodeStep /\ HasLabel(entries, last.label)) =>
        LET entry == GetEntry(entries, last.label)
        IN  /\ last.result.some
            /\ last.result.code =
                  TotpCode(entry.secret, entry.digits, entry.period,
                           entry.algorithm, ReadAt)

(* C12: for a stored entry with period p >= 1 at time t, get_progress is   *)
(* (t mod p) / p, in [0,1), and the remaining seconds are p - (t mod p),    *)
(* in [1,p]; at t mod p = 0 progress is 0 and remaining is p, at p = 30     *)
(* and t mod 30 = 15 progress is one half and remaining is 15; the          *)
(* progress of an unknown label is 0.                                       *)
C12_ProgressAndRemaining ==
    /\ (last.op = "get_progress" /\ ~HasLabel(entries, last.label)) =>
          last.result.num = 0 /\ last.result.den > 0
    /\ (last.op = "get_progress" /\ HasLabel(entries, last.label)) =>
          LET p == GetEntry(entries, last.label).period
              r == last.result
          IN  p >= 1 =>
                /\ r.den = p /\ r.num = ReadAt % p
                /\ 0 <= r.num /\ r.num < r.den
                /\ (ReadAt % p = 0) => r.num = 0
                /\ (p = 30 /\ ReadAt % 30 = 15) => 2 * r.num = r.den
    /\ (last.op = "get_otp_with_remaining_time" /\ HasLabel(entries, last.label)) =>
          LET p == GetEntry(entries, last.label).period
              r == last.result
          IN  p >= 1 =>
                /\ r.some
                /\ r.remaining = p - (ReadAt % p)
                /\ 1 <= r.remaining /\ r.remaining <= p
                /\ (ReadAt % p = 0) => r.remaining = p
                /\ (p = 30 /\ ReadAt % 30 = 15) => r.remaining = 15

\* progress read half way through a 30 second period
C12_Witness ==
    /\ last.op = "get_progress"
    /\ HasLabel(entries, last.label)
    /\ GetEntry(entries, last.label).period = 30
    /\ ReadAt % 30 = 15
    /\ last.result = Frac(15, 30)

\* remaining seconds read at the start of a 60 second period
C12_WitnessRemaining ==
    /\ last.op = "get_otp_with_remaining_time"
    /\ HasLabel(entries, last.label)
    /\ GetEntry(entries, last.label).period = 60
    /\ ReadAt = 60
    /\ last.result.remaining = 60

(* C13: set_language(code) either succeeds, and then the current language   *)
(* is code, the catalog of code is cached and every observer registered at  *)
(* that moment has been called exactly once, in registration order, with    *)
(* the language that was current before the call; or it fails (as it does   *)
(* for an invalid code and for a catalog that is missing), and then the     *)
(* current language is unchanged and no observer has been called.           *)
ExpectedCalls(snapshot, arg) ==
    [i \in 1..Len(snapshot) |-> [callback |-> snapshot[i], arg |-> arg]]

C13_SetLanguage ==
    ilast.op = "set_language" =>
        /\ ilast.ok =>
              /\ current_language = ilast.code
              /\ ilast.code \in DOMAIN translations
              /\ ilast.calls = ExpectedCalls(ilast.snapshot, ilast.old_language)
        /\ ~ilast.ok =>
              /\ current_language = ilast.old_language
              /\ ilast.calls = <<>>
        /\ ilast.code \in {BadCode, FrFR} => ~ilast.ok

\* a switch from zh_TW to en_US seen by two observers
C13_Witness ==
    /\ ilast.op = "set_language"
    /\ ilast.ok
    /\ ilast.old_language = ZhTW
    /\ current_language = EnUS
    /\ Len(ilast.snapshot) >= 2
    /\ Len(ilast.calls) = Len(ilast.snapshot)

\* a switch refused because the catalog file cannot be parsed
C13_WitnessFailed ==
    /\ ilast.op = "set_language"
    /\ ~ilast.ok
    /\ ilast.code = EnUS
    /\ locales_dir[EnUS].kind = "unparsable"
    /\ observers # <<>>

(* C14: in a notification round every observer registered when the round    *)
(* began is called exactly once, also when an earlier observer raises or    *)
(* adds or removes observers during its call; an observer added during the  *)
(* round is not called in it; no exception of an observer leaves            *)
(* set_language or reload_language.                                         *)
RoundHappened ==
    \/ ilast.op = "set_language" /\ ilast.ok
    \/ ilast.op = "reload_language" /\ ilast.ok /\ ilast.code = ilast.old_language

CalledIn(calls, callback) ==
    Cardinality({i \in 1..Len(calls) : calls[i].callback = callback})

Registered(obs, callback) == \E i \in 1..Len(obs) : obs[i] = callback

C14_NotificationRound ==
    ilast.op \in {"set_language", "reload_language"} =>
        /\ ~ilast.raised
        /\ RoundHappened =>
              \A callback \in ObserverInputs :
                  CalledIn(ilast.calls, callback) =
                      IF Registered(ilast.snapshot, callback) THEN 1 ELSE 0

\* a round whose first observer removes the second, adds a third and raises
C14_Witness ==
    /\ RoundHappened
    /\ ilast.snapshot = <<Callback("mutator", <<>>), Callback("plain", <<>>)>>
    /\ CalledIn(ilast.calls, Callback("plain", <<>>)) = 1
    /\ CalledIn(ilast.calls, Callback("late", <<>>)) = 0
    /\ observers = <<Callback("mutator", <<>>), Callback("late", <<>>)>>

(* C15: t(dot_path) never raises; it returns dot_path itself whenever a     *)
(* segment of the path is missing from the active catalog, the value found  *)
(* is no string, or the active language has no cached catalog; otherwise    *)
(* it returns the catalog string.                                           *)
HasKey(node, key) == node.t = "d" /\ key \in DOMAIN node.d

\* the value the active catalog holds at a path of one or two segments
Resolves(segments) ==
    /\ current_language \in DOMAIN translations
    /\ Len(segments) \in {1, 2}
    /\ HasKey(translations[current_language], segments[1])
    /\ Len(segments) = 2 =>
          HasKey(translations[current_language].d[segments[1]], segments[2])

ValueAt(segments) ==
    IF Len(segments) = 1 THEN translations[current_language].d[segments[1]]
    ELSE translations[current_language].d[segments[1]].d[segments[2]]

C15_TranslationFallback ==
    ilast.op = "t" =>
        LET segments == Split(ilast.code, ".")
        IN  /\ ilast.ok
            /\ Len(segments) \in {1, 2}
            /\ IF Resolves(segments) /\ ValueAt(segments).t = "s"
               THEN ilast.result = ValueAt(segments).s
               ELSE ilast.result = ilast.code

\* a key asked for while the active language has no catalog
C15_Witness ==
    /\ ilast.op = "t"
    /\ current_language \notin DOMAIN translations
    /\ ilast.code = KeyApp \o <<".">> \o KeyTitle
    /\ ilast.result = ilast.code

\* a key found in the active catalog
C15_WitnessFound ==
    /\ ilast.op = "t"
    /\ current_language = EnUS
    /\ ilast.result = <<"E","N">>

(* C16: create_backup returns the bundle directory path only when every    *)
(* step succeeded (JSON export, CSV export, QR image export, manifest       *)
(* written); when any of these steps fails it returns absent.               *)
C16_BackupAllOrNothing ==
    last.op = "create_backup" =>
        LET io == last.payload
        IN  last.result.some <=>
               (io.dir_ok /\ io.json_ok /\ io.csv_ok /\ io.qr_dir_ok
                  /\ io.qr_writable /\ io.info_ok)

(* C17: export_to_qr_codes writes one QR image per entry that has a        *)
(* resolvable provisioning URI: the success map returned has as many keys   *)
(* as there are such entries, also for labels that differ only in           *)
(* characters the sanitisation replaces or only after the 200th character.  *)
C17_OneImagePerEntry ==
    last.op = "export_to_qr_codes" =>
        Cardinality(DOMAIN last.result) = Len(WithUri(last.before))

-----------------------------------------------------------------------------
(* C18: startup *)

CardLabels(cards) == [i \in 1..Len(cards) |-> cards[i].label]
EntryLabels(es) == [i \in 1..Len(es) |-> es[i].label]

\* C18: whatever the data file and the backups hold, MainWindow.__init__
\* runs to its end: the window is ready, there is one card per loaded entry,
\* the timer is started, the close handler is bound and the window's
\* language observer is registered.
C18_StartupReachesReady ==
    ulast.op = "startup" =>
        /\ phase = "ready"
        /\ ~ulast.raised
        /\ CardLabels(otp_cards) = EntryLabels(entries)
        /\ tick_scheduled
        /\ close_handler
        /\ Registered(observers, Callback("main_window", <<>>))

-----------------------------------------------------------------------------
(* C19: the order of the steps of a callback that changes the collection *)

MutatingCallbacks ==
    {"manual_input", "edit_otp", "delete_otp", "upload_qr_code", "import_json",
     "import_qr_dir"}

\* C19: a callback that changed the collection then saved, then refreshed the
\* list, then showed the status message, in this order and to the end, and
\* the data file holds the collection as the callback left it.
C19_MutateSaveRefreshStatus ==
    (ulast.op \in MutatingCallbacks /\ ulast.mutated) =>
        /\ ulast.steps = <<"mutate", "save", "refresh", "status">>
        /\ ~ulast.raised
        /\ data_file = File("doc", now, [i \in 1..Len(entries) |-> ItemOfEntry(entries[i])])

-----------------------------------------------------------------------------
(* C20: the refresh tick *)

\* C20: a tick leaves the collection, the data file and the labels of the
\* mapped cards as they were and schedules the next tick; and in a ready
\* window a tick always comes again, whatever callbacks run in between,
\* until the window is closed.
C20_TickFrameAndRecurrence ==
    /\ [][DoUpdateOtpCodes =>
            /\ UNCHANGED <<entries, data_file, backups>>
            /\ CardLabels(otp_cards') = CardLabels(otp_cards)
            /\ tick_scheduled']_vars
    /\ [](phase = "ready" => tick_scheduled)
    /\ (phase = "ready") ~> (ulast.op = "tick" \/ phase = "closed")
    /\ (ulast.op = "tick" /\ ulast.turn = 0) ~> (ulast.op # "tick" \/ ulast.turn = 1)
    /\ (ulast.op = "tick" /\ ulast.turn = 1) ~> (ulast.op # "tick" \/ ulast.turn = 0)

\* a second tick in a row, in a window whose collection a callback has saved
C20_Witness ==
    /\ phase = "ready"
    /\ ulast.op = "tick"
    /\ ulast.turn = 1
    /\ entries # <<>>
    /\ data_file = File("doc", now, [i \in 1..Len(entries) |-> ItemOfEntry(entries[i])])

-----------------------------------------------------------------------------
(* C21: a rejected add or edit *)

\* what the claim names as grounds to reject the fields of the add dialog
RejectedAdd(in) ==
    \/ in.label = <<>>
    \/ in.secret = <<>>
    \/ HasLabel(entries, in.label)
    \/ ~ValidSecret(in.secret)

\* the same for the edit dialog opened on the entry label
RejectedEdit(label, in) ==
    \/ in.label = <<>>
    \/ in.secret = <<>>
    \/ in.label # label /\ HasLabel(entries, in.label)
    \/ ~ValidSecret(in.secret)

AbortedWithNoChange ==
    /\ UNCHANGED <<entries, data_file, backups, otp_cards, observers,
                   status_label, search_query>>
    /\ ulast'.steps = <<>>
    /\ ~ulast'.mutated
    /\ ulast'.dialog = "open"

\* C21: confirming the add dialog or the edit dialog with a missing label or
\* secret, a label another entry has, or an unusable secret changes nothing:
\* not the collection, not the data file, not the backups, not the cards, and
\* the dialog stays open.
C21_RejectedConfirmAborts ==
    [][/\ \A in \in ManualInputs :
            (DoManualInput(in) /\ RejectedAdd(in)) => AbortedWithNoChange
       /\ \A l \in {Work, Mail}, in \in EditInputs :
            (DoEditOtp(l, in) /\ HasLabel(entries, l) /\ RejectedEdit(l, in))
                => AbortedWithNoChange]_vars

\* a rejected edit of one of two entries, with a data file on disk
C21_Witness ==
    /\ ulast.op = "edit_otp"
    /\ ulast.dialog = "open"
    /\ ~ulast.mutated
    /\ Len(entries) = 2
    /\ data_file.kind = "doc"

-----------------------------------------------------------------------------
(* C26: after save() has returned success, if a data file existed before    *)
(* this save then the newest backup holds exactly that file as it was       *)
(* before the save, and if none existed the backups directory is as it was. *)

LatestName(dir) == CHOOSE n \in DOMAIN dir : \A k \in DOMAIN dir : k <= n

C26_BackupHoldsPreviousFile ==
    (last.op = "save" /\ last.ok) =>
        LET file == last.payload[1]
            dir == last.payload[2]
        IN  IF file.kind = "missing" THEN backups = dir
            ELSE /\ DOMAIN backups # {}
                 /\ backups[LatestName(backups)] = file

-----------------------------------------------------------------------------
(* C28: a load() that comes right after a save() that returned success      *)
(* raises nothing and returns a collection with the labels of the saved     *)
(* one and, for each label, the same secret, issuer, algorithm, digits,     *)
(* period, tags and created_at.                                             *)

EntrySet(es) == {es[i] : i \in 1..Len(es)}

LoadAfterSuccessfulSave == last.op = "load" /\ last.payload = <<"save", TRUE>>

C28_SaveLoadRoundTrip ==
    LoadAfterSuccessfulSave =>
        /\ ~loaded.raised
        /\ Len(loaded.entries) = Len(entries)
        /\ EntrySet(loaded.entries) = EntrySet(entries)

C28_Witness ==
    /\ LoadAfterSuccessfulSave
    /\ Len(entries) = 2
    /\ \E i \in 1..Len(entries) :
          /\ entries[i].label = Bank
          /\ entries[i].algorithm = "SHA512"
    /\ \E i \in 1..Len(entries) :
          /\ entries[i].issuer = Some(Acme)
          /\ entries[i].created_at = 1
    /\ loaded.entries = entries

-----------------------------------------------------------------------------
(* C22: a close request saves the settings (the geometry read and the       *)
(* current language), saves the collection, removes the window's language   *)
(* observer and destroys the window, in this order; afterwards the window   *)
(* is closed and its callback is not in the observer list, whether or not   *)
(* the write of the settings file or of the data file failed.               *)

C22_CloseSequence ==
    ulast.op = "closing" =>
        /\ ulast.steps = <<"settings", "save", "observer", "destroy">>
        /\ phase = "closed"
        /\ ~Registered(observers, Callback("main_window", <<>>))
        /\ Resolve(settings, default_settings).language = S(CodeText(current_language))
        /\ ulast.in.geometry.some =>
              Resolve(settings, default_settings).window = D(ulast.in.geometry.d)
        /\ ulast.in.settings_ok =>
              settings_file = SavedSettings(settings, default_settings)
        /\ IF ulast.data_ok
           THEN data_file = File("doc", now,
                                 [i \in 1..Len(entries) |-> ItemOfEntry(entries[i])])
           ELSE data_file = ulast.before[1]

\* a close whose data save failed, of a window that holds an entry and has
\* changed its language
C22_Witness ==
    /\ ulast.op = "closing"
    /\ phase = "closed"
    /\ ~ulast.data_ok
    /\ entries # <<>>
    /\ current_language = EnUS

\* a close whose settings save failed
C22_WitnessSettings ==
    /\ ulast.op = "closing"
    /\ phase = "closed"
    /\ ~ulast.in.settings_ok
    /\ settings_file.kind = "missing"

-----------------------------------------------------------------------------
(* C23: in a ready window every entry the list has to show has a card that  *)
(* registered exactly one language observer when it was built, and the      *)
(* observer list holds no callback of a card that is not mapped.            *)

ShownEntries ==
    IF search_query # <<>> THEN SearchEntries(entries, search_query) ELSE entries

CardCallbackCount(obs, label) ==
    Cardinality({i \in 1..Len(obs) : obs[i] = Callback("card", label)})

C23_OneObserverPerCard ==
    phase = "ready" =>
        /\ \A i \in 1..Len(ShownEntries) :
              CardCallbackCount(observers, ShownEntries[i].label) = 1
        /\ \A i \in 1..Len(observers) :
              observers[i].owner = "card" =>
                  \E j \in 1..Len(otp_cards) : otp_cards[j].label = observers[i].label

-----------------------------------------------------------------------------
(* C24: a status message is cleared by the timer that was set when it was   *)
(* shown, 3000 ms later, never by the timer of an earlier message: when a   *)
(* timer clears a message, no other timer is pending.                       *)

C24_ClearedByOwnTimer ==
    [][(DoClearStatus /\ status_label # <<>>) => status_timers = 1]_vars

-----------------------------------------------------------------------------
(* C25: an import flow only adds.  Every entry of the collection before     *)
(* the import is in the collection after it, unchanged; the labels a QR     *)
(* image, QR directory or text file import reports are pairwise distinct,   *)
(* were absent before and are present after, and the collection has grown   *)
(* by their number; the JSON merge leaves out every imported entry whose    *)
(* label was present and the collection has grown by the count reported.    *)

ImportOps == {"import_qr", "import_google", "import_qr_dir", "import_json"}

C25_ImportsOnlyAdd ==
    last.op \in ImportOps =>
        /\ \A i \in 1..Len(last.before) :
              /\ HasLabel(entries, last.before[i].label)
              /\ GetEntry(entries, last.before[i].label) = last.before[i]
        /\ \A i, j \in 1..Len(last.labels) :
              last.labels[i] = last.labels[j] => i = j
        /\ \A i \in 1..Len(last.labels) :
              /\ ~HasLabel(last.before, last.labels[i])
              /\ HasLabel(entries, last.labels[i])
        /\ Len(entries) = Len(last.before) +
              (IF last.op = "import_json" THEN last.result ELSE Len(last.labels))
        /\ last.op = "import_json" =>
              \A i \in 1..Len(last.payload) :
                  /\ HasLabel(entries, last.payload[i].label)
                  /\ ~HasLabel(last.before, last.payload[i].label) =>
                        GetEntry(entries, last.payload[i].label) = last.payload[i]

\* a JSON merge that skipped an entry whose label was present and added
\* another one
C25_Witness ==
    /\ last.op = "import_json"
    /\ last.result = 1
    /\ Len(last.payload) = 2
    /\ Len(last.before) = 2
    /\ Len(entries) = 3

\* a directory import that renamed a colliding label
C25_WitnessRenamed ==
    /\ last.op = "import_qr_dir"
    /\ Len(last.labels) = 2
    /\ HasLabel(last.before, Work)

-----------------------------------------------------------------------------
(* C27: in a ready window whose list has no entry to show, the empty state  *)
(* is packed and shows the presentation of the current query: with an       *)
(* empty query the "no entries" title, description and icon with the        *)
(* action button, with a query the "no results" title, description of that  *)
(* query and search icon without an action button.                          *)

C27_EmptyStateMatchesQuery ==
    (phase = "ready" /\ ShownEntries = <<>>) =>
        /\ empty_state.packed
        /\ IF search_query = <<>>
           THEN empty_state = EmptyState(Text("empty_state.no_otp.title", <<>>),
                                         Text("empty_state.no_otp.description", <<>>),
                                         "lock", TRUE, TRUE)
           ELSE empty_state = EmptyState(Text("search.no_results", <<>>),
                                         Text("search.no_results_desc", search_query),
                                         "search", FALSE, TRUE)

\* the same without the action button: the content alone
C27_ContentMatchesQuery ==
    (phase = "ready" /\ ShownEntries = <<>>) =>
        /\ empty_state.packed
        /\ IF search_query = <<>>
           THEN /\ empty_state.title = Text("empty_state.no_otp.title", <<>>)
                /\ empty_state.icon = "lock"
           ELSE /\ empty_state.title = Text("search.no_results", <<>>)
                /\ empty_state.icon = "search"

-----------------------------------------------------------------------------
(* C30: in a ready window between callbacks, the entries the data file      *)
(* holds are the collection, the mapping has exactly the labels of the      *)
(* entries that match the search query (all entries for an empty query),    *)
(* and no card is mapped under a label the collection does not have.        *)

\* the entries load() reads from the data file as it is
StoredEntries == Load(data_file, <<>>, now).entries

C30_FileAndCardsMatchCollection ==
    phase = "ready" =>
        /\ EntrySet(StoredEntries) = EntrySet(entries)
        /\ {otp_cards[i].label : i \in 1..Len(otp_cards)} =
              {ShownEntries[i].label : i \in 1..Len(ShownEntries)}
        /\ \A i \in 1..Len(otp_cards) : HasLabel(entries, otp_cards[i].label)

-----------------------------------------------------------------------------
(* C29: every code of the allow-list, every key of the catalog cache and    *)
(* the current language are two letters, an underscore and two letters,     *)
(* so the only files opened are those of such codes.                        *)

TwoLettersUnderscoreTwoLetters(code) ==
    /\ Len(code) = 5
    /\ IsLetter(code[1]) /\ IsLetter(code[2])
    /\ code[3] = "_"
    /\ IsLetter(code[4]) /\ IsLetter(code[5])

C29_CodesMatchPattern ==
    /\ \A code \in allowed_languages : TwoLettersUnderscoreTwoLetters(code)
    /\ \A code \in DOMAIN translations : TwoLettersUnderscoreTwoLetters(code)
    /\ TwoLettersUnderscoreTwoLetters(current_language)

====
